---- MODULE Spec2Model ----
(***************************************************************************)
(* A model of the Gemini web client (gemininixiang/client.py) and of the   *)
(* OpenAI-compatible server in front of it (gemininixiang/server.py).      *)
(*                                                                         *)
(* Strings are sequences of one-character strings, so that JSON encoding   *)
(* and decoding, strip() and len() are computed, not assumed.  JSON values *)
(* are tagged records: JNull, JNum(n), JStr(s), JArr(a).                   *)
(***************************************************************************)
EXTENDS Integers, Sequences, FiniteSets, TLC

(***************************************************************************)
(* JSON values, json.dumps(..., ensure_ascii=False, separators=(',',':'))  *)
(* and json.loads, as used by _build_request_data.                         *)
(***************************************************************************)
JNull == [t |-> "null"]

JNum(n) == [t |-> "num", n |-> n]

JStr(s) == [t |-> "str", s |-> s]

JArr(a) == [t |-> "arr", a |-> a]

Digits == <<"0", "1", "2", "3", "4", "5", "6", "7", "8", "9">>

IsDigit(ch) == \E d \in 1..10 : Digits[d] = ch

DigitVal(ch) == (CHOOSE d \in 1..10 : Digits[d] = ch) - 1

RECURSIVE NatToChars(_)
NatToChars(n) ==
    IF n < 10 THEN <<Digits[n + 1]>>
    ELSE NatToChars(n \div 10) \o <<Digits[(n % 10) + 1]>>

\* A variant of the string encoder that copies the characters without escaping.
EscapeCharsRaw(s) == s

\* The body of a JSON string literal: '"' and '\' get a backslash, newline is \n,
\* any other character is copied (a long string is encoded half by half).
RECURSIVE EscapeChars(_)
EscapeChars(s) ==
    IF s = <<>> THEN <<>>
    ELSE IF Len(s) = 1
         THEN IF s[1] = "\"" THEN <<"\\", "\"">>
              ELSE IF s[1] = "\\" THEN <<"\\", "\\">>
              ELSE IF s[1] = "\n" THEN <<"\\", "n">>
              ELSE s
    ELSE EscapeChars(SubSeq(s, 1, Len(s) \div 2))
         \o EscapeChars(SubSeq(s, Len(s) \div 2 + 1, Len(s)))

RECURSIVE JsonDumps(_)
\* The elements of an array, separated by commas (a long array half by half).
RECURSIVE DumpElems(_)
DumpElems(a) ==
    IF a = <<>> THEN <<>>
    ELSE IF Len(a) = 1 THEN JsonDumps(a[1])
    ELSE DumpElems(SubSeq(a, 1, Len(a) \div 2)) \o <<",">>
         \o DumpElems(SubSeq(a, Len(a) \div 2 + 1, Len(a)))

JsonDumps(v) ==
    IF v.t = "null" THEN <<"n", "u", "l", "l">>
    ELSE IF v.t = "num" THEN NatToChars(v.n)
    ELSE IF v.t = "str" THEN <<"\"">> \o EscapeChars(v.s) \o <<"\"">>
    ELSE <<"[">> \o DumpElems(v.a) \o <<"]">>

\* json.loads of a compact JSON text.  Every parse returns [ok, v]: whether the
\* text is one JSON value, and the value.
ParseFail == [ok |-> FALSE, v |-> JNull]

Parsed(v) == [ok |-> TRUE, v |-> v]

RECURSIVE CharsToNat(_)
CharsToNat(s) ==
    IF s = <<>> THEN 0
    ELSE CharsToNat(SubSeq(s, 1, Len(s) - 1)) * 10 + DigitVal(s[Len(s)])

\* The number of backslashes right before position j.
BackslashRun(s, j) ==
    CHOOSE r \in 0..(j - 1) :
        /\ \A k \in (j - r)..(j - 1) : s[k] = "\\"
        /\ (r = j - 1 \/ s[j - r - 1] # "\\")

\* The characters that cannot stand for themselves in a string literal.
EndsChunk(ch) == ch \in {"\"", "\\", "\n"}

\* The body of a string literal decoded: plain stretches are copied, an escape is
\* two characters; a long body is cut in two between two of its characters.
RECURSIVE ParseChars(_)
ParseChars(s) ==
    IF \A j \in 1..Len(s) : ~EndsChunk(s[j]) THEN [ok |-> TRUE, s |-> s]
    ELSE IF Len(s) = 1 THEN [ok |-> FALSE, s |-> <<>>]
    ELSE IF Len(s) = 2
         THEN IF s[1] = "\\" /\ s[2] \in {"\"", "\\"} THEN [ok |-> TRUE, s |-> <<s[2]>>]
              ELSE IF s[1] = "\\" /\ s[2] = "n" THEN [ok |-> TRUE, s |-> <<"\n">>]
              ELSE [ok |-> FALSE, s |-> <<>>]
    ELSE LET half == Len(s) \div 2
             m == IF BackslashRun(s, half + 1) % 2 = 1 THEN half + 1 ELSE half
             l == ParseChars(SubSeq(s, 1, m))
             r == ParseChars(SubSeq(s, m + 1, Len(s)))
         IN [ok |-> l.ok /\ r.ok, s |-> l.s \o r.s]

\* The quotes of s that open or close a string literal.
Quotes(s) == { j \in 1..Len(s) : s[j] = "\"" /\ BackslashRun(s, j) % 2 = 0 }

\* The commas of s that separate the elements of the array whose body s is.
TopCommas(s) ==
    LET Q == Quotes(s)
        Outside == { j \in 1..Len(s) :
                       s[j] \in {"[", "]", ","} /\ Cardinality({ q \in Q : q < j }) % 2 = 0 }
        Opens == { j \in Outside : s[j] = "[" }
        Closes == { j \in Outside : s[j] = "]" }
    IN { j \in Outside :
           /\ s[j] = ","
           /\ Cardinality({ k \in Opens : k < j }) = Cardinality({ k \in Closes : k < j }) }

Dist(a, b) == IF a < b THEN b - a ELSE a - b

RECURSIVE ParseValue(_)
RECURSIVE ParseElems(_, _, _, _)
\* The elements in s[lo..hi], cut at the separating comma nearest to the middle.
ParseElems(s, lo, hi, commas) ==
    LET inside == { c \in commas : lo <= c /\ c <= hi }
    IN IF inside = {}
       THEN LET r == ParseValue(SubSeq(s, lo, hi)) IN [ok |-> r.ok, a |-> <<r.v>>]
       ELSE LET mid == (lo + hi) \div 2
                c == CHOOSE c \in inside : \A d \in inside : Dist(c, mid) <= Dist(d, mid)
                l == ParseElems(s, lo, c - 1, commas)
                r == ParseElems(s, c + 1, hi, commas)
            IN [ok |-> l.ok /\ r.ok, a |-> l.a \o r.a]

ParseValue(s) ==
    IF s = <<"n", "u", "l", "l">> THEN Parsed(JNull)
    ELSE IF s # <<>> /\ (\A j \in 1..Len(s) : IsDigit(s[j])) /\ (Len(s) = 1 \/ s[1] # "0")
         THEN Parsed(JNum(CharsToNat(s)))
    ELSE IF Len(s) >= 2 /\ s[1] = "\"" /\ s[Len(s)] = "\""
         THEN LET r == ParseChars(SubSeq(s, 2, Len(s) - 1))
              IN IF r.ok THEN Parsed(JStr(r.s)) ELSE ParseFail
    ELSE IF Len(s) >= 2 /\ s[1] = "[" /\ s[Len(s)] = "]"
         THEN IF Len(s) = 2 THEN Parsed(JArr(<<>>))
              ELSE LET body == SubSeq(s, 2, Len(s) - 1)
                       r == ParseElems(body, 1, Len(body), TopCommas(body))
                   IN IF r.ok THEN Parsed(JArr(r.a)) ELSE ParseFail
    ELSE ParseFail

\* json.loads(s)
JsonLoads(s) == ParseValue(s)


(***************************************************************************)
(* Bounds of the model and the input alphabets.                            *)
(***************************************************************************)
\* Lines of one upstream response body.
MaxLines == 2

\* Upper limit on request_count (the guard that keeps the counter finite).
MaxRequests == 2

\* Images carried by one chat message.
MaxImages == 1

\* Length of the user text in the request-encoding specification.

\* Chunks the event streams of the server may carry (see the server part).
MaxRetryLines == 1

NoId == <<>>

\* The upstream mints one triple of ids per exchange: GenOf(n) tags the triple
\* of the exchange that follows n counted requests; "0" tags ids saved earlier.
GenOf(n) == Digits[n + 2]

ConvId(g) == <<"c", g>>

RespId(g) == <<"r", g>>

ChoiceId(g) == <<"k", g>>

\* Reply texts of a candidate: none, blank, and two of different length.
Texts == {<<>>, <<" ">>, <<"a">>, <<"a", "b">>}

\* User texts of a chat message ("" makes chat() raise ValueError).
UserTexts == {<<>>, <<"h">>}

Tokens == {<<"t", "1">>}

PushIds == {<<>>, <<"p">>}

DefaultBl == <<"b", "0">>

\* One line of an upstream body.  status: a citation-status line
\* [["wrb.fr",null,null,null,null,[9]]], which carries no payload.  Otherwise a
\* "wrb.fr" line whose payload has inner_json[1] = [conv, resp] (both, or
\* [null, resp], or neither) and either inner_json[4] = null (text = <<>>) or
\* inner_json[4] = [[cand, [text]]].
LineShapes ==
    { l \in [status : BOOLEAN, conv : BOOLEAN, resp : BOOLEAN, cand : BOOLEAN, text : Texts] :
        /\ l.status => (~l.conv /\ ~l.resp /\ ~l.cand)
        /\ l.conv => l.resp
        /\ l.cand <=> (l.text # <<>>) }

MkLine(g, s) ==
    [status |-> s.status,
     conv   |-> IF s.conv THEN ConvId(g) ELSE NoId,
     resp   |-> IF s.resp THEN RespId(g) ELSE NoId,
     cand   |-> IF s.cand THEN ChoiceId(g) ELSE NoId,
     text   |-> s.text]

SeqsUpTo(S, n) == UNION { [1..k -> S] : k \in 0..n }

\* The bodies the upstream may answer an exchange with.
BodyShapes == SeqsUpTo(LineShapes, MaxLines)

Responses(g) == { [k \in DOMAIN ss |-> MkLine(g, ss[k])] : ss \in BodyShapes }

(***************************************************************************)
(* GeminiClient (client.py).  A client is a record of the object's fields; *)
(* the session file is a record of what conversation_state.json holds.     *)
(* Every method is an operator from the state before to the state after.   *)
(***************************************************************************)
max_history_messages == 100

Msg(role, text, images) == [role |-> role, content |-> [text |-> text, images |-> images]]

NoClient ==
    [alive |-> FALSE, debug |-> FALSE, snlm0e |-> <<>>, bl |-> <<>>, push_id |-> <<>>,
     cookies |-> <<>>,
     conversation_id |-> NoId, response_id |-> NoId, choice_id |-> NoId,
     request_count |-> 0, messages |-> <<>>]

\* The session file: absent, unreadable (json.load raises), or a saved state.
NoFile ==
    [exists |-> FALSE, ok |-> TRUE, conversation_id |-> NoId, response_id |-> NoId,
     choice_id |-> NoId, messages |-> <<>>]

\* _save_session_state: writes ids and history; a failing write is swallowed.
SaveSessionState(c, f, fs_ok) ==
    IF fs_ok
    THEN [exists |-> TRUE, ok |-> TRUE, conversation_id |-> c.conversation_id,
          response_id |-> c.response_id, choice_id |-> c.choice_id, messages |-> c.messages]
    ELSE f

\* The history cut shared by chat() and _load_session_state.
TruncateHistory(msgs) ==
    IF Len(msgs) > max_history_messages
    THEN LET keep_count == IF max_history_messages % 2 = 1
                           THEN max_history_messages - 1 ELSE max_history_messages
         IN SubSeq(msgs, Len(msgs) - keep_count + 1, Len(msgs))
    ELSE msgs

\* A load that keeps the ids it has read when the messages make it raise.
LoadSessionStateKeepsIds(c, f) ==
    IF ~f.exists THEN c
    ELSE IF ~f.ok
         THEN [c EXCEPT !.conversation_id = f.conversation_id, !.response_id = f.response_id,
                        !.choice_id = f.choice_id, !.messages = <<>>]
    ELSE [c EXCEPT !.conversation_id = f.conversation_id, !.response_id = f.response_id,
                   !.choice_id = f.choice_id, !.messages = TruncateHistory(f.messages)]

\* _load_session_state: no file, no change; an unreadable file empties the state.
LoadSessionState(c, f) ==
    IF ~f.exists THEN c
    ELSE IF ~f.ok
         THEN [c EXCEPT !.conversation_id = NoId, !.response_id = NoId,
                        !.choice_id = NoId, !.messages = <<>>]
    ELSE [c EXCEPT !.conversation_id = f.conversation_id, !.response_id = f.response_id,
                   !.choice_id = f.choice_id, !.messages = TruncateHistory(f.messages)]

\* A reset that forgets to clear choice_id.
ResetKeepChoice(c, f, fs_ok) ==
    [c |-> [c EXCEPT !.conversation_id = NoId, !.response_id = NoId, !.messages = <<>>],
     f |-> IF f.exists /\ fs_ok THEN NoFile ELSE f]

\* reset(): empties ids and history, removes the file; a failing removal is swallowed.
Reset(c, f, fs_ok) ==
    [c |-> [c EXCEPT !.conversation_id = NoId, !.response_id = NoId,
                     !.choice_id = NoId, !.messages = <<>>],
     f |-> IF f.exists /\ fs_ok THEN NoFile ELSE f]

NoPayload == [text |-> <<>>, ids |-> <<NoId, NoId, NoId>>, token |-> <<>>, images |-> 0]

\* The requests a client puts on the wire.
BlFetch == [url |-> "BASE_URL", cmd |-> "GET", at |-> <<>>, inner |-> NoPayload]

UploadStart == [url |-> "upload", cmd |-> "start", at |-> <<>>, inner |-> NoPayload]

UploadFinalize == [url |-> "upload", cmd |-> "upload, finalize", at |-> <<>>, inner |-> NoPayload]

\* A StreamGenerate post: the form field 'at' and, of the f.req payload, the text
\* ([0][0]), the id triple ([2][0..2]) and the token ([3]).
StreamGenerate(at, inner) ==
    [url |-> "StreamGenerate", cmd |-> "POST", at |-> at,
     inner |-> [text |-> inner.a[1].a[1].s,
                ids |-> <<inner.a[3].a[1].s, inner.a[3].a[2].s, inner.a[3].a[3].s>>,
                token |-> inner.a[4].s,
                images |-> IF inner.a[1].a[4].t = "arr" THEN 1 ELSE 0]]

\* A constructor that fetches the BL before it looks at snlm0e.
NewClientFetchFirst(snlm0e, bl, push_id, cookies, debug, f, bl_page) ==
    IF snlm0e = <<>>
    THEN [c |-> NoClient, res |-> "ValueError", wire |-> IF bl = <<>> THEN <<BlFetch>> ELSE <<>>]
    ELSE LET c0 == [alive |-> TRUE, debug |-> debug, snlm0e |-> snlm0e,
                    bl |-> IF bl = <<>> THEN DefaultBl ELSE bl,
                    push_id |-> push_id, cookies |-> cookies, conversation_id |-> NoId,
                    response_id |-> NoId, choice_id |-> NoId, request_count |-> 0,
                    messages |-> <<>>]
         IN [c |-> LoadSessionState(c0, f), res |-> "ok",
             wire |-> IF bl = <<>> THEN <<BlFetch>> ELSE <<>>]

\* __init__: ValueError without snlm0e, before _fetch_bl and _load_session_state.
\* bl_page is the BL the page yields (<<>>: no match or a failed fetch).
\* Returns the object (alive only if constructed), the result and the requests sent.
NewClient(snlm0e, bl, push_id, cookies, debug, f, bl_page) ==
    IF snlm0e = <<>>
    THEN [c |-> NoClient, res |-> "ValueError", wire |-> <<>>]
    ELSE LET c0 == [alive |-> TRUE, debug |-> debug, snlm0e |-> snlm0e, bl |-> bl,
                    push_id |-> push_id, cookies |-> cookies, conversation_id |-> NoId, response_id |-> NoId,
                    choice_id |-> NoId, request_count |-> 0, messages |-> <<>>]
             c1 == IF bl = <<>>
                   THEN [c0 EXCEPT !.bl = IF bl_page = <<>> THEN DefaultBl ELSE bl_page]
                   ELSE c0
         IN [c |-> LoadSessionState(c1, f), res |-> "ok",
             wire |-> IF bl = <<>> THEN <<BlFetch>> ELSE <<>>]

SessionId == <<"A", "-", "1">>

Timestamp == 1234

ImageFilename == <<"i", ".", "p", "n", "g">>

ImagePath == <<"/", "c", "s", "/", "x">>

ImageMime == <<"i", "/", "p">>

\* _build_request_data, the inner array (67 elements, as in the source).
BuildInner(c, text, image_paths) ==
    LET n == JNull
        image_data == IF Len(image_paths) > 0
                      THEN JArr(<<JArr(<<JArr(<<JStr(image_paths[1]), JNum(1), n, JStr(ImageMime)>>),
                                         JStr(ImageFilename)>>)>>)
                      ELSE n
    IN JArr(<<
        JArr(<<JStr(text), JNum(0), n, image_data, n, n, JNum(0)>>),
        JArr(<<JStr(<<"z", "h", "-", "C", "N">>)>>),
        JArr(<<JStr(c.conversation_id), JStr(c.response_id), JStr(c.choice_id),
               n, n, n, n, n, n, JStr(<<>>)>>),
        JStr(c.snlm0e),
        n, n, JArr(<<JNum(1)>>), JNum(1), n, n, JNum(1), JNum(0), n, n, n, n, n,
        JArr(<<JArr(<<JNum(0)>>)>>), JNum(0), n, n, n, n, n, n, n, n, JNum(1), n, n,
        JArr(<<JNum(4)>>), n, n, n, n, n, n, n, n, n, n, JArr(<<JNum(1)>>),
        n, n, n, n, n, n, n, n, n, n, n, JNum(0), n, n, n, n, n,
        JStr(SessionId), n, JArr(<<>>), n, n, n, n,
        JArr(<<JNum(Timestamp \div 1000), JNum((Timestamp % 1000) * 1000000)>>)
      >>)

\* _build_request_data: the inner array dumped, wrapped in [null, inner] and dumped again.
BuildRequestData(c, text, image_paths) ==
    JsonDumps(JArr(<<JNull, JStr(JsonDumps(BuildInner(c, text, image_paths)))>>))

\* The id triple and the token of a request on the wire.
ReqIds(r) == r.inner.ids

ReqToken(r) == r.inner.token

ClientIds(c) == <<c.conversation_id, c.response_id, c.choice_id>>


(***************************************************************************)
(* Response parsing.                                                       *)
(***************************************************************************)
IsSpace(ch) == ch \in {" ", "\n"}

RECURSIVE LStrip(_)
LStrip(s) == IF s # <<>> /\ IsSpace(Head(s)) THEN LStrip(Tail(s)) ELSE s

RECURSIVE RStrip(_)
RStrip(s) == IF s # <<>> /\ IsSpace(s[Len(s)]) THEN RStrip(SubSeq(s, 1, Len(s) - 1)) ELSE s

\* str.strip()
Strip(s) == RStrip(LStrip(s))

\* The reply _parse_response returns when no line gave a text.
Unparsed == <<"unparsed">>

\* A context update that takes the conversation id and leaves the response id.
UpdateContextConvOnly(c, line) ==
    [c EXCEPT !.conversation_id = IF line.conv # NoId THEN line.conv ELSE @]

\* The context update of one payload line: inner_json[1][0] and inner_json[1][1].
UpdateContext(c, line) ==
    [c EXCEPT !.conversation_id = IF line.conv # NoId THEN line.conv ELSE @,
              !.response_id = IF line.resp # NoId THEN line.resp ELSE @]

\* One iteration of the line loop of _parse_response.  acc = [c, f, final_text].
ParseLine(acc, line, fs_ok) ==
    IF line.status THEN acc
    ELSE LET c1 == UpdateContext(acc.c, line)
             f1 == IF c1.conversation_id # acc.c.conversation_id
                      \/ c1.response_id # acc.c.response_id
                   THEN SaveSessionState(c1, acc.f, fs_ok) ELSE acc.f
             text == line.text
         IN IF /\ text # <<>>
               /\ Len(Strip(text)) > 0
               /\ (Len(text) > Len(acc.final_text) \/ acc.final_text = <<>>)
            THEN LET c2 == [c1 EXCEPT !.choice_id = IF line.cand # NoId THEN line.cand ELSE @]
                 IN [c |-> c2, f |-> SaveSessionState(c2, f1, fs_ok), final_text |-> text]
            ELSE [c |-> c1, f |-> f1, final_text |-> acc.final_text]

RECURSIVE ParseLines(_, _, _)
ParseLines(acc, body, fs_ok) ==
    IF body = <<>> THEN acc
    ELSE ParseLines(ParseLine(acc, Head(body), fs_ok), Tail(body), fs_ok)

\* _parse_response: the state after, and the reply text.
ParseResponse(c, f, body, fs_ok) ==
    LET acc == ParseLines([c |-> c, f |-> f, final_text |-> <<>>], body, fs_ok)
    IN [c |-> acc.c, f |-> acc.f,
        reply |-> IF acc.final_text # <<>> /\ Strip(acc.final_text) # <<>>
                  THEN Strip(acc.final_text) ELSE Unparsed]

(***************************************************************************)
(* Image upload.                                                           *)
(***************************************************************************)
\* What the upload endpoint may do to one image.
UploadOutcomes ==
    {"ok", "start_401", "no_upload_id", "start_error", "finalize_401", "finalize_error", "no_path"}

\* An _upload_image that goes on to the second step whatever the first answered.
UploadImageAlwaysFinalizes(c, outcome) ==
    IF c.push_id = <<>> THEN [res |-> "CookieExpiredError", wire |-> <<>>]
    ELSE IF outcome = "start_error" THEN [res |-> "ImageUploadError", wire |-> <<UploadStart>>]
    ELSE IF outcome \in {"start_401", "no_upload_id"}
         THEN [res |-> "CookieExpiredError", wire |-> <<UploadStart, UploadFinalize>>]
    ELSE IF outcome = "finalize_error"
         THEN [res |-> "ImageUploadError", wire |-> <<UploadStart, UploadFinalize>>]
    ELSE IF outcome \in {"finalize_401", "no_path"}
         THEN [res |-> "CookieExpiredError", wire |-> <<UploadStart, UploadFinalize>>]
    ELSE [res |-> "ok", wire |-> <<UploadStart, UploadFinalize>>]

\* _upload_image: the requests sent, and the path or the exception raised.
UploadImage(c, outcome) ==
    IF c.push_id = <<>> THEN [res |-> "CookieExpiredError", wire |-> <<>>]
    ELSE IF outcome = "start_error" THEN [res |-> "ImageUploadError", wire |-> <<UploadStart>>]
    ELSE IF outcome \in {"start_401", "no_upload_id"}
         THEN [res |-> "CookieExpiredError", wire |-> <<UploadStart>>]
    ELSE IF outcome = "finalize_error"
         THEN [res |-> "ImageUploadError", wire |-> <<UploadStart, UploadFinalize>>]
    ELSE IF outcome \in {"finalize_401", "no_path"}
         THEN [res |-> "CookieExpiredError", wire |-> <<UploadStart, UploadFinalize>>]
    ELSE [res |-> "ok", wire |-> <<UploadStart, UploadFinalize>>]

\* The upload loop of _send_request and _send_stream_request: stops at the first failure.
RECURSIVE UploadAll(_, _, _)
UploadAll(c, outcomes, acc) ==
    IF outcomes = <<>> THEN acc
    ELSE LET u == UploadImage(c, Head(outcomes))
             acc1 == [res |-> u.res, wire |-> acc.wire \o u.wire,
                      paths |-> IF u.res = "ok" THEN Append(acc.paths, ImagePath) ELSE acc.paths]
         IN IF u.res = "ok" THEN UploadAll(c, Tail(outcomes), acc1) ELSE acc1

NoUploads == [res |-> "ok", wire |-> <<>>, paths |-> <<>>]

(***************************************************************************)
(* The generator of _send_stream_request.                                  *)
(***************************************************************************)
\* The generator object of _send_stream_request.  st: "none" (no generator),
\* "created" (no code has run yet), "suspended" (at a yield), "done".
NoGen ==
    [st |-> "none", text |-> <<>>, images |-> 0, lines |-> <<>>, last_text |-> <<>>]

DoneGen == [NoGen EXCEPT !.st = "done"]

NewGen(text, images) ==
    [st |-> "created", text |-> text, images |-> images, lines |-> <<>>, last_text |-> <<>>]

\* The line loop of _send_stream_request from its position to the next yield (or
\* to the end): conversation_id and response_id follow the lines, the text
\* beyond last_text is the chunk.
RECURSIVE StreamLines(_, _, _)
StreamLines(c, lines, last_text) ==
    IF lines = <<>> THEN [c |-> c, lines |-> <<>>, last_text |-> last_text, chunk |-> <<>>, done |-> TRUE]
    ELSE LET line == Head(lines)
             c1 == IF line.status THEN c ELSE UpdateContext(c, line)
             current_text == Strip(line.text)
         IN IF ~line.status /\ current_text # <<>> /\ Len(current_text) > Len(last_text)
            THEN [c |-> c1, lines |-> Tail(lines), last_text |-> current_text,
                  chunk |-> SubSeq(current_text, Len(last_text) + 1, Len(current_text)),
                  done |-> FALSE]
            ELSE StreamLines(c1, Tail(lines), last_text)

\* The result of resuming the generator: state after, generator after, the
\* exception or "yield"/"stop", the chunk yielded, the requests sent.
GenEffect(c, g, res, chunk, wire) == [c |-> c, g |-> g, res |-> res, chunk |-> chunk, wire |-> wire]

GenRun(c, g, lines, last_text, wire) ==
    LET r == StreamLines(c, lines, last_text)
    IN IF r.done
       THEN GenEffect(r.c, DoneGen, "stop", <<>>, wire)
       ELSE GenEffect(r.c, [g EXCEPT !.st = "suspended", !.lines = r.lines, !.last_text = r.last_text],
                      "yield", r.chunk, wire)

\* The first next(): the code of _send_stream_request up to its first yield.
GenStart(c, g, uploads, post, body) ==
    IF g.images > 0 /\ c.push_id = <<>>
    THEN GenEffect(c, DoneGen, "CookieExpiredError", <<>>, <<>>)
    ELSE LET up == IF g.images > 0 THEN UploadAll(c, uploads, NoUploads) ELSE NoUploads
         IN IF up.res # "ok"
            THEN GenEffect(c, DoneGen, "ImageUploadError", <<>>, up.wire)
            ELSE LET req == StreamGenerate(c.snlm0e, BuildInner(c, g.text, up.paths))
                     wire == Append(up.wire, req)
                 IN IF post # "ok"
                    THEN GenEffect(c, DoneGen, "Exception", <<>>, wire)
                    ELSE GenRun([c EXCEPT !.request_count = @ + 1], g, body, <<>>, wire)

\* A later next(): from the yield to the next one.
GenResume(c, g) == GenRun(c, g, g.lines, g.last_text, <<>>)

(***************************************************************************)
(* _send_request and chat().                                               *)
(***************************************************************************)
\* What the StreamGenerate endpoint may do.
PostOutcomes == {"ok", "http_error", "network_error"}

\* The replies _send_request makes up when the second attempt gives no text or fails.
ImageSlow == <<"image-slow">>

ImageFailed == <<"image-failed">>

\* The result of a call: the state after, the exception or "ok", the requests sent.
Effect(c, f, res, wire, reply) == [c |-> c, f |-> f, res |-> res, wire |-> wire, reply |-> reply]

RECURSIVE Concat(_)
Concat(chunks) == IF chunks = <<>> THEN <<>> ELSE Head(chunks) \o Concat(Tail(chunks))

\* for chunk in stream_gen: the generator run from its position to its end; the
\* chunks it yields.
RECURSIVE Drain(_, _, _, _)
Drain(c, lines, last_text, chunks) ==
    LET r == StreamLines(c, lines, last_text)
    IN IF r.done THEN [c |-> r.c, chunks |-> chunks]
       ELSE Drain(r.c, r.lines, r.last_text, Append(chunks, r.chunk))

\* _send_stream_request(text, images=None, image_paths=...) consumed in one go:
\* the state after, "ok" or the exception, the chunks, the request sent.
StreamRequest(c, text, image_paths, post, body) ==
    LET req == StreamGenerate(c.snlm0e, BuildInner(c, text, image_paths))
    IN IF post # "ok"
       THEN [c |-> c, res |-> "Exception", chunks |-> <<>>, wire |-> <<req>>]
       ELSE LET d == Drain([c EXCEPT !.request_count = @ + 1], body, <<>>, <<>>)
            IN [c |-> d.c, res |-> "ok", chunks |-> d.chunks, wire |-> <<req>>]

\* is_streaming_initial: some payload line has inner_json[4] = null.
IsStreamingInitial(body) == \E i \in DOMAIN body : ~body[i].status /\ body[i].text = <<>>

NoRetry == [post |-> "ok", body |-> <<>>]

\* The second attempt of _send_request (debug clients): an unparsable answer to a
\* request with images that was a stream's initial chunk is asked for again
\* through _send_stream_request, with the paths already uploaded (the 60 s limit
\* of the loop that collects the chunks is not reached).
SecondAttempt(c, reply, text, image_paths, body, retry) ==
    IF c.debug /\ reply = Unparsed /\ IsStreamingInitial(body)
       /\ c.response_id # NoId /\ image_paths # <<>>
    THEN LET st == StreamRequest(c, text, image_paths, retry.post, retry.body)
             full_stream_text == Concat(st.chunks)
         IN [c |-> st.c, wire |-> st.wire,
             reply |-> IF st.res # "ok" THEN ImageFailed
                       ELSE IF Strip(full_stream_text) # <<>> THEN Strip(full_stream_text)
                       ELSE ImageSlow]
    ELSE [c |-> c, reply |-> reply, wire |-> <<>>]

\* A _send_request that counts the request it refuses for want of a push_id.
SendRequestCountsRefused(c, f, text, images, uploads, post, body, retry, fs_ok) ==
    IF images > 0 /\ c.push_id = <<>>
    THEN Effect([c EXCEPT !.request_count = @ + 1], f, "CookieExpiredError", <<>>, <<>>)
    ELSE LET up == IF images > 0 THEN UploadAll(c, uploads, NoUploads) ELSE NoUploads
         IN IF up.res # "ok" THEN Effect(c, f, up.res, up.wire, <<>>)
            ELSE LET req == StreamGenerate(c.snlm0e, BuildInner(c, text, up.paths))
                     wire == Append(up.wire, req)
                 IN IF post # "ok" THEN Effect(c, f, "Exception", wire, <<>>)
                    ELSE LET c1 == [c EXCEPT !.request_count = @ + 1]
                             p == ParseResponse(c1, f, body, fs_ok)
                             s == SecondAttempt(p.c, p.reply, text, up.paths, body, retry)
                             c2 == [s.c EXCEPT !.messages = Append(@, Msg("assistant", s.reply, 0))]
                         IN Effect(c2, SaveSessionState(c2, p.f, fs_ok), "ok",
                                   wire \o s.wire, s.reply)

\* _send_request(text, images) with the uploads, the post and the body the upstream
\* gives, and the post and the body of a second attempt.
SendRequest(c, f, text, images, uploads, post, body, retry, fs_ok) ==
    IF images > 0 /\ c.push_id = <<>>
    THEN Effect(c, f, "CookieExpiredError", <<>>, <<>>)
    ELSE LET up == IF images > 0 THEN UploadAll(c, uploads, NoUploads) ELSE NoUploads
         IN IF up.res # "ok" THEN Effect(c, f, up.res, up.wire, <<>>)
            ELSE LET req == StreamGenerate(c.snlm0e, BuildInner(c, text, up.paths))
                     wire == Append(up.wire, req)
                 IN IF post # "ok" THEN Effect(c, f, "Exception", wire, <<>>)
                    ELSE LET c1 == [c EXCEPT !.request_count = @ + 1]
                             p == ParseResponse(c1, f, body, fs_ok)
                             s == SecondAttempt(p.c, p.reply, text, up.paths, body, retry)
                             c2 == [s.c EXCEPT !.messages = Append(@, Msg("assistant", s.reply, 0))]
                         IN Effect(c2, SaveSessionState(c2, p.f, fs_ok), "ok",
                                   wire \o s.wire, s.reply)

\* The loop of chat() over an OpenAI message list: user and assistant messages
\* go to the history, the last user message gives the text and the images.
RECURSIVE ChatMessages(_, _)
ChatMessages(acc, messages) ==
    IF messages = <<>> THEN acc
    ELSE LET m == Head(messages)
         IN ChatMessages(
              IF m.role = "user"
              THEN [history |-> Append(acc.history, m), text |-> m.content.text,
                    images |-> m.content.images]
              ELSE IF m.role = "assistant"
              THEN [acc EXCEPT !.history = Append(@, m)]
              ELSE acc,
              Tail(messages))

\* chat(messages=..., reset_context=...) up to the point where it sends.
ChatPrologue(c, f, messages, reset_context, fs_ok) ==
    LET r == IF reset_context THEN Reset(c, f, fs_ok) ELSE [c |-> c, f |-> f]
        acc == ChatMessages([history |-> r.c.messages, text |-> <<>>, images |-> 0], messages)
        c1 == IF messages # <<>>
              THEN [r.c EXCEPT !.messages = TruncateHistory(acc.history)] ELSE r.c
    IN [c |-> c1, f |-> r.f, text |-> acc.text, images |-> acc.images,
        res |-> IF acc.text = <<>> THEN "ValueError" ELSE "ok"]

\* chat(messages=..., stream=False)
Chat(c, f, messages, reset_context, uploads, post, body, retry, fs_ok) ==
    LET p == ChatPrologue(c, f, messages, reset_context, fs_ok)
    IN IF p.res # "ok" THEN Effect(p.c, p.f, p.res, <<>>, <<>>)
       ELSE SendRequest(p.c, p.f, p.text, p.images, uploads, post, body, retry, fs_ok)


(***************************************************************************)
(* The state: one GeminiClient object (the server's _client), its session  *)
(* file, its stream generator, what the last call did; the server's        *)
(* globals and its last HTTP exchange; the last request payload built.     *)
(***************************************************************************)
VARIABLES
    client,        \* the GeminiClient object (NoClient before construction)
    session_file,  \* conversation_state.json
    fs_ok,         \* whether the working directory can be written (fixed per run)
    gen,           \* the generator returned by chat(stream=True)
    wire,          \* the requests the last call sent, in order
    last,          \* the last call: its name, its result, what the upstream body carried
    config,        \* server.py _config
    STREAMING_MODE,
    last_user_messages_hash,   \* server.py _last_user_messages_hash
    http,          \* the last HTTP request the server handled, and its response
    built,         \* the last call of _build_request_data: its arguments and its value
    admin_sessions,   \* server.py _admin_sessions
    tokens_issued     \* how many tokens generate_session_token has given out

vars ==
    <<client, session_file, fs_ok, gen, wire, last, config, STREAMING_MODE,
      last_user_messages_hash, http, built, admin_sessions, tokens_issued>>

\* What the calls of the client alone leave as it is.
server_vars ==
    <<config, STREAMING_MODE, last_user_messages_hash, http, admin_sessions, tokens_issued>>

NoConfig == [SNLM0E |-> <<>>, SECURE_1PSID |-> <<>>, PUSH_ID |-> <<>>]

\* No admin_session cookie; the tokens are 1, 2, ...
NoToken == 0

NoHttp ==
    [endpoint |-> "none", authorization |-> <<>>, messages |-> <<>>, stream |-> FALSE,
     status |-> 0, events |-> <<>>, reply |-> <<>>, reset |-> FALSE,
     cookie |-> NoToken, set_cookie |-> NoToken, success |-> FALSE]

NoBuilt == [text |-> <<>>, image_paths |-> <<>>, f_req |-> <<>>]

\* Upper limit on the user messages that failed calls have left at the end of the
\* history, beyond which the model calls chat() no more.
MaxOrphans == 1

RECURSIVE TrailingUsers(_)
TrailingUsers(msgs) ==
    IF msgs # <<>> /\ msgs[Len(msgs)].role = "user"
    THEN 1 + TrailingUsers(SubSeq(msgs, 1, Len(msgs) - 1)) ELSE 0

\* What a body carries: the ids of its payload lines, and the candidate id that
\* comes with a non-blank text.
PayloadLines(body) == { i \in DOMAIN body : ~body[i].status }

CarriedConv(body) ==
    IF \E i \in PayloadLines(body) : body[i].conv # NoId
    THEN body[CHOOSE i \in PayloadLines(body) : body[i].conv # NoId].conv ELSE NoId

CarriedResp(body) ==
    IF \E i \in PayloadLines(body) : body[i].resp # NoId
    THEN body[CHOOSE i \in PayloadLines(body) : body[i].resp # NoId].resp ELSE NoId

CarriedChoice(body) ==
    IF \E i \in PayloadLines(body) : body[i].cand # NoId
    THEN body[CHOOSE i \in PayloadLines(body) : body[i].cand # NoId].cand ELSE NoId

CarriedChoiceWithText(body) ==
    IF \E i \in PayloadLines(body) : body[i].cand # NoId /\ Strip(body[i].text) # <<>>
    THEN body[CHOOSE i \in PayloadLines(body) : body[i].cand # NoId /\ Strip(body[i].text) # <<>>].cand
    ELSE NoId

NoIds == <<NoId, NoId, NoId>>

Full(ids) == ids[1] # NoId /\ ids[2] # NoId /\ ids[3] # NoId

\* got: the ids of the body a non-streaming call parsed (candidate id with non-blank
\* text); streamed: the ids of the body the generator is working on; clean: no
\* other call has run since the generator started.
Last(op, res, reset, got, streamed, clean) ==
    [op |-> op, res |-> res, reset |-> reset, got |-> got, streamed |-> streamed, clean |-> clean,
     uploads |-> <<>>]

\* The session files a process may find at start.
SavedMsgs == <<Msg("user", <<"h">>, 0), Msg("assistant", <<"a">>, 0)>>

InitFiles ==
    { NoFile,
      [NoFile EXCEPT !.exists = TRUE, !.ok = FALSE],
      [exists |-> TRUE, ok |-> TRUE, conversation_id |-> ConvId("0"), response_id |-> RespId("0"),
       choice_id |-> ChoiceId("0"), messages |-> SavedMsgs] }

Init ==
    /\ client = NoClient
    /\ session_file \in InitFiles
    /\ fs_ok \in BOOLEAN
    /\ gen = NoGen
    /\ wire = <<>>
    /\ last = Last("none", "ok", FALSE, NoIds, NoIds, FALSE)
    /\ config = NoConfig
    /\ STREAMING_MODE = "real"
    /\ last_user_messages_hash = <<>>
    /\ http = NoHttp
    /\ built = NoBuilt
    /\ admin_sessions = {}
    /\ tokens_issued = 0

\* GeminiClient(...): the process constructs its client.
Construct ==
    /\ ~client.alive
    /\ \E snlm0e \in Tokens \cup {<<>>}, bl \in {<<>>, DefaultBl}, push_id \in PushIds :
       \E e \in {NewClient(snlm0e, bl, push_id, <<"s">>, TRUE, session_file, <<>>)} :
         /\ client' = e.c
         /\ wire' = e.wire
         /\ last' = Last("__init__", e.res, FALSE, NoIds, NoIds, FALSE)
    /\ UNCHANGED <<session_file, fs_ok, gen, server_vars, built>>

UserMsgs == { Msg("user", t, n) : t \in UserTexts, n \in 0..MaxImages }

\* The message lists given to chat().
ChatInputs == { <<m>> : m \in UserMsgs \cup {Msg("system", <<"h">>, 0)} }

UploadInputs(n) == [1..n -> UploadOutcomes]

\* The inputs of a call that reaches the uploads / the post / the body.
UploadsFor(c, ok, images) ==
    IF ok /\ images > 0 /\ c.push_id # <<>> THEN UploadInputs(images) ELSE {<<>>}

Posts(c, ok, images, uploads) ==
    ok /\ (images = 0 \/ (c.push_id # <<>> /\ \A i \in DOMAIN uploads : uploads[i] = "ok"))

PostsFor(c, ok, images, uploads) ==
    IF Posts(c, ok, images, uploads) THEN PostOutcomes ELSE {"ok"}

BodiesFor(c, ok, images, uploads, post) ==
    IF post = "ok" /\ Posts(c, ok, images, uploads)
    THEN Responses(GenOf(c.request_count)) ELSE {<<>>}

\* The second attempt's inputs: its post and, of at most MaxRetryLines lines, its body.
RetriesFor(c, ok, images, uploads, post, body) ==
    IF post = "ok" /\ images > 0 /\ Posts(c, ok, images, uploads) /\ IsStreamingInitial(body)
       /\ \A i \in DOMAIN body : Strip(body[i].text) = <<>>
    THEN { [post |-> q, body |-> b] :
             q \in PostOutcomes \ {"ok"}, b \in {<<>>} }
         \cup { [post |-> "ok", body |-> b] :
                  b \in { r \in Responses(GenOf(c.request_count + 1)) : Len(r) <= MaxRetryLines } }
    ELSE {NoRetry}

\* What the last call got from the body it parsed.
Got(res, body) ==
    IF res = "ok"
    THEN <<CarriedConv(body), CarriedResp(body), CarriedChoiceWithText(body)>> ELSE NoIds

Streamed(res, body) ==
    IF res \in {"yield", "stop"}
    THEN <<CarriedConv(body), CarriedResp(body), CarriedChoice(body)>> ELSE NoIds

\* client.chat(messages=..., stream=False), while no generator is in flight.
\* (chat(reset_context=True) is reset() followed by the same call: see ResetCall.)
ChatCall ==
    /\ client.alive
    /\ client.request_count < MaxRequests
    /\ TrailingUsers(client.messages) < MaxOrphans
    /\ gen.st \in {"none", "done"}
    /\ \E messages \in ChatInputs :
       \E p \in {ChatPrologue(client, session_file, messages, FALSE, fs_ok)} :
       \E uploads \in UploadsFor(client, p.res = "ok", p.images) :
       \E post \in PostsFor(client, p.res = "ok", p.images, uploads) :
       \E body \in BodiesFor(client, p.res = "ok", p.images, uploads, post) :
       \E retry \in RetriesFor(client, p.res = "ok", p.images, uploads, post, body) :
       \E e \in {Chat(client, session_file, messages, FALSE, uploads, post, body, retry, fs_ok)} :
         /\ client' = e.c
         /\ session_file' = e.f
         /\ wire' = e.wire
         /\ last' = Last("chat", e.res, FALSE, Got(e.res, body), NoIds, FALSE)
    /\ UNCHANGED <<fs_ok, gen, server_vars, built>>

\* client.chat(messages=..., stream=True): returns the generator, runs none of it.
ChatStreamCall ==
    /\ client.alive
    /\ client.request_count < MaxRequests
    /\ TrailingUsers(client.messages) < MaxOrphans
    /\ gen.st \in {"none", "done"}
    /\ \E messages \in ChatInputs, reset_context \in BOOLEAN :
       \E p \in {ChatPrologue(client, session_file, messages, reset_context, fs_ok)} :
         /\ client' = p.c
         /\ session_file' = p.f
         /\ gen' = IF p.res = "ok" THEN NewGen(p.text, p.images) ELSE gen
         /\ wire' = <<>>
         /\ last' = Last("chat_stream", p.res, reset_context, NoIds, NoIds, FALSE)
    /\ UNCHANGED <<fs_ok, server_vars, built>>

\* next(generator), the first time.
GenFirstNext ==
    /\ client.alive
    /\ gen.st = "created"
    /\ \E uploads \in UploadsFor(client, TRUE, gen.images) :
       \E post \in PostsFor(client, TRUE, gen.images, uploads) :
       \E body \in BodiesFor(client, TRUE, gen.images, uploads, post) :
       \E e \in {GenStart(client, gen, uploads, post, body)} :
         /\ client' = e.c
         /\ gen' = e.g
         /\ wire' = e.wire
         /\ last' = Last("next", e.res, FALSE, NoIds, Streamed(e.res, body), e.res \in {"yield", "stop"})
    /\ UNCHANGED <<session_file, fs_ok, server_vars, built>>

\* next(generator), after a yield.
GenNext ==
    /\ client.alive
    /\ gen.st = "suspended"
    /\ \E e \in {GenResume(client, gen)} :
         /\ client' = e.c
         /\ gen' = e.g
         /\ wire' = e.wire
         /\ last' = Last("next", e.res, FALSE, NoIds, last.streamed, last.clean)
    /\ UNCHANGED <<session_file, fs_ok, server_vars, built>>

\* client.reset()
ResetCall ==
    /\ client.alive
    /\ \E r \in {Reset(client, session_file, fs_ok)} :
         /\ client' = r.c
         /\ session_file' = r.f
    /\ wire' = <<>>
    /\ last' = Last("reset", "ok", TRUE, NoIds, last.streamed, FALSE)
    /\ UNCHANGED <<fs_ok, gen, server_vars, built>>

Next ==
    \/ Construct
    \/ ChatCall
    \/ ChatStreamCall
    \/ GenFirstNext
    \/ GenNext
    \/ ResetCall

Spec == Init /\ [][Next]_vars

(***************************************************************************)
(* Properties of the client.                                               *)
(***************************************************************************)
IsStreamGenerate(r) == r.url = "StreamGenerate"

\* The StreamGenerate requests among the requests of a call.
Sent(w) == SelectSeq(w, IsStreamGenerate)

\* The step is a non-streaming chat() whose last user message has images / a text.
ChatAdds == last'.op = "chat" /\ Len(client'.messages) > Len(client.messages)

ImageChat == ChatAdds /\ client'.messages[Len(client.messages) + 1].content.images > 0

TextChat == ChatAdds /\ client'.messages[Len(client.messages) + 1].content.text # <<>>

\* An id that came with the response to the request counted as number n + 1.
FromResponse(id, n) == id # NoId /\ id[2] = GenOf(n)

C1_Held ==
    (last.op = "chat" /\ last.res = "ok" /\ Full(last.got)) => ClientIds(client) = last.got

C1_Echo == Sent(wire') # <<>> => ReqIds(Sent(wire')[1]) = ClientIds(client)

C1_Kept ==
    \A k \in 1..3 :
      ClientIds(client')[k] # ClientIds(client)[k] =>
        \/ ~client.alive
        \/ last'.op = "reset" \/ last'.reset
        \/ /\ last'.op = "chat" /\ last'.res = "ok"
           /\ \E n \in client.request_count .. client'.request_count - 1 :
                FromResponse(ClientIds(client')[k], n)
        \/ /\ last'.op = "next" /\ last'.res \in {"yield", "stop"}
           /\ FromResponse(ClientIds(client')[k], client'.request_count - 1)

\* C1: after a non-streaming request succeeded on a response that carried a
\* conversation id, a response id and a candidate id with non-blank text, the
\* client holds exactly these three ids; every request a client builds carries the
\* three ids the client holds; and the ids a client holds change only by reset()
\* or by an id that a later response supplies.
C1_NonStreamingContinuity == []C1_Held /\ [][C1_Echo /\ C1_Kept]_vars

\* A second request has been sent with the full id triple of the first response.
C1_Witness ==
    /\ last.op = "chat" /\ last.res = "ok" /\ client.request_count = 2
    /\ Sent(wire) # <<>>
    /\ ReqIds(Sent(wire)[1]) = <<ConvId(GenOf(0)), RespId(GenOf(0)), ChoiceId(GenOf(0))>>

\* C2: when the generator of _send_stream_request has been consumed to its end, with
\* no other call in between, on a response that carried a conversation id, a
\* response id and a candidate id, the client holds these three ids (which the
\* next request then carries).
C2_StreamingContinuity ==
    (last.op = "next" /\ last.res = "stop" /\ last.clean /\ Full(last.streamed))
        => ClientIds(client) = last.streamed

\* C3: a constructor call without snlm0e raises ValueError having sent nothing and
\* loaded nothing; no request is on the wire of a client without snlm0e; every
\* StreamGenerate request carries the client's snlm0e as 'at' and in its payload.
C3_TokenRequired ==
    /\ (last.op = "__init__" /\ last.res = "ValueError") => (wire = <<>> /\ client = NoClient)
    /\ wire # <<>> => (client.alive /\ client.snlm0e # <<>>)
    /\ \A i \in DOMAIN wire :
         IsStreamGenerate(wire[i]) =>
           wire[i].at = client.snlm0e /\ ReqToken(wire[i]) = client.snlm0e

\* The constructor has refused to start without snlm0e while a saved session was on disk.
C3_Witness ==
    /\ last.op = "__init__" /\ last.res = "ValueError"
    /\ session_file.exists /\ session_file.ok /\ session_file.conversation_id # NoId

C4_Refused ==
    /\ last'.res = "CookieExpiredError"
    /\ wire' = <<>>
    /\ ClientIds(client') = ClientIds(client)
    /\ client'.request_count = client.request_count

C9_Frame ==
    last'.op = "reset" =>
        /\ client'.request_count = client.request_count
        /\ client'.snlm0e = client.snlm0e
        /\ client'.push_id = client.push_id
        /\ client'.bl = client.bl

C9_NextRequest ==
    (last.op = "reset" /\ Sent(wire') # <<>>) => ReqIds(Sent(wire')[1]) = NoIds

\* C9 as stated: right after reset() the ids are empty, the history is empty and
\* the session file does not exist; the next request carries an empty id triple;
\* reset() leaves request_count, snlm0e, push_id and bl.
C9_Reset ==
    /\ [](last.op = "reset" =>
            ClientIds(client) = NoIds /\ client.messages = <<>> /\ ~session_file.exists)
    /\ [][C9_Frame /\ C9_NextRequest]_vars

\* C9 amended: the same, the session file being gone unless it could not be removed
\* (reset() swallows the failure of os.remove).
C9_ResetUnlessRemovalFails ==
    /\ [](last.op = "reset" =>
            /\ ClientIds(client) = NoIds /\ client.messages = <<>>
            /\ fs_ok => ~session_file.exists)
    /\ [][C9_Frame /\ C9_NextRequest]_vars

\* reset() has run after an exchange and has removed the session file.
C9_Witness ==
    /\ last.op = "reset" /\ client.request_count > 0
    /\ fs_ok /\ ~session_file.exists /\ ClientIds(client) = NoIds

(***************************************************************************)
(* The server (server.py): its API endpoints as operators from the state   *)
(* before to the response and the state after.  A response stream is       *)
(* produced in one step: the server handles the next request when the      *)
(* stream of the last one has been read to its end.                        *)
(***************************************************************************)
API_KEY == <<"s", "k", "-", "g", "e", "m", "i", "n", "i">>

Bearer == <<"B", "e", "a", "r", "e", "r", " ">>

StartsWith(s, prefix) == Len(s) >= Len(prefix) /\ SubSeq(s, 1, Len(prefix)) = prefix

\* A key check that accepts any header that begins with 'Bearer ' and the key.
VerifyApiKeyPrefix(authorization) == StartsWith(authorization, Bearer \o API_KEY)

\* verify_api_key: TRUE, or FALSE for HTTPException(401).  <<>> is a missing header.
VerifyApiKey(authorization) ==
    IF API_KEY = <<>> THEN TRUE
    ELSE ~(\/ authorization = <<>>
           \/ ~StartsWith(authorization, Bearer)
           \/ SubSeq(authorization, 8, Len(authorization)) # API_KEY)

\* get_client: 500 without SNLM0E or SECURE_1PSID; the client there is, or a new
\* one (which fetches the BL and loads the session file).
GetClient(cfg, c, f) ==
    IF cfg.SNLM0E = <<>> \/ cfg.SECURE_1PSID = <<>>
    THEN [res |-> "HTTPException", c |-> c, wire |-> <<>>]
    ELSE IF c.alive THEN [res |-> "ok", c |-> c, wire |-> <<>>]
    ELSE CHOOSE r \in { [res |-> n.res, c |-> n.c, wire |-> n.wire] :
                         n \in {NewClient(cfg.SNLM0E, <<>>, cfg.PUSH_ID, cfg.SECURE_1PSID,
                                          TRUE, f, <<>>)} } : TRUE

\* get_user_messages_hash: the text of the user messages, each followed by '|'
\* (md5 is taken to be injective: the hash is the text hashed, behind a mark).
RECURSIVE UserContent(_)
UserContent(messages) ==
    IF messages = <<>> THEN <<>>
    ELSE (IF Head(messages).role = "user" THEN Head(messages).content.text \o <<"|">> ELSE <<>>)
         \o UserContent(Tail(messages))

GetUserMessagesHash(messages) == <<"md5">> \o UserContent(messages)

HasAssistant(messages) == \E i \in DOMAIN messages : messages[i].role = "assistant"

\* is_continuation
IsContinuation(current_messages, last_hash) ==
    IF last_hash = <<>> THEN FALSE
    ELSE IF HasAssistant(current_messages) THEN TRUE
    ELSE IF Len(current_messages) > 1 THEN TRUE
    ELSE LET user_indices == { i \in DOMAIN current_messages : current_messages[i].role = "user" }
         IN IF Cardinality(user_indices) <= 1 THEN FALSE
            ELSE LET last_user_idx == CHOOSE i \in user_indices : \A j \in user_indices : j <= i
                 IN GetUserMessagesHash(SubSeq(current_messages, 1, last_user_idx - 1)) = last_hash

\* The events of a response stream.
Event(event, content, finish_reason) ==
    [event |-> event, content |-> content, finish_reason |-> finish_reason]

RoleChunk == Event("role", <<>>, "null")

ContentChunk(text) == Event("content", text, "null")

StopChunk == Event("empty", <<>>, "stop")

ErrorChunk == Event("content", <<"error">>, "stop")

Done == Event("[DONE]", <<>>, "")

GeminiInitial == Event("parts", <<>>, "")

GeminiText(text) == Event("parts", text, "")

GeminiStop == Event("finishReason", <<>>, "STOP")

GeminiError == Event("error", <<>>, "")

\* The response of a handler and the state it leaves.
Response(status, events, reply, c, f, hash, w) ==
    [status |-> status, events |-> events, reply |-> reply, c |-> c, f |-> f,
     hash |-> hash, wire |-> w, reset |-> FALSE]

\* The inputs of a handler that the upstream decides.
NoUpstream ==
    [uploads |-> <<>>, post |-> "ok", body |-> <<>>, retry |-> NoRetry,
     post2 |-> "ok", body2 |-> <<>>]

\* The one element of a singleton: Only({e(x) : x \in {v}}) is e(v), v taken once.
Only(S) == CHOOSE x \in S : TRUE

\* generate_real_stream without 'data: [DONE]' after the error chunk.
RealStreamNoDoneOnError(c, text, post, body) ==
    Only({ [c |-> st.c, wire |-> st.wire,
            events |-> IF st.res # "ok" THEN <<RoleChunk, ErrorChunk>>
                       ELSE <<RoleChunk>>
                            \o [k \in DOMAIN st.chunks |-> ContentChunk(st.chunks[k])]
                            \o <<StopChunk, Done>>] :
           st \in {StreamRequest(c, text, <<>>, post, body)} })

\* generate_real_stream: the role chunk, a second request to the upstream through
\* _send_stream_request and its chunks, the stop chunk and [DONE]; an exception
\* gives a chunk with the error and finish_reason stop, and [DONE].
RealStream(c, text, post, body) ==
    Only({ [c |-> st.c, wire |-> st.wire,
            events |-> IF st.res # "ok" THEN <<RoleChunk, ErrorChunk, Done>>
                       ELSE <<RoleChunk>>
                            \o [k \in DOMAIN st.chunks |-> ContentChunk(st.chunks[k])]
                            \o <<StopChunk, Done>>] :
           st \in {StreamRequest(c, text, <<>>, post, body)} })

chunk_size == 10

\* generate_fake_stream: the reply in pieces of chunk_size characters.
FakeStream(reply_content) ==
    <<RoleChunk>>
    \o [k \in 1..((Len(reply_content) + chunk_size - 1) \div chunk_size) |->
          ContentChunk(SubSeq(reply_content, (k - 1) * chunk_size + 1,
                              IF k * chunk_size < Len(reply_content)
                              THEN k * chunk_size ELSE Len(reply_content)))]
    \o <<StopChunk, Done>>

\* chat_completions after client.chat() has returned e: the hash of the user
\* messages is kept, then the JSON response or one of the two streams.
ChatCompletionsRespond(e, mode, messages, stream, up, w) ==
    IF ~stream
    THEN Response(200, <<>>, e.reply, e.c, e.f, GetUserMessagesHash(messages), w)
    ELSE IF mode = "real"
    THEN Only({ Response(200, st.events, e.reply, st.c, e.f, GetUserMessagesHash(messages),
                         w \o st.wire) :
                st \in {RealStream(e.c, messages[Len(messages)].content.text,
                                   up.post2, up.body2)} })
    ELSE Response(200, FakeStream(e.reply), e.reply, e.c, e.f, GetUserMessagesHash(messages), w)

\* A handler that resets the client for every request of one message without an
\* assistant message that is no continuation, whatever the client holds.
ChatCompletionsChatResetsOnOne(g, f, mode, hash, messages, stream, up, ok) ==
    Only({ Only({ [(IF e.res # "ok"
                    THEN Response(500, <<>>, <<>>, e.c, e.f, hash, g.wire \o e.wire)
                    ELSE ChatCompletionsRespond(e, mode, messages, stream, up,
                                                g.wire \o e.wire))
                   EXCEPT !.reset = r.reset] :
                  e \in {Chat(r.c, r.f, messages, FALSE, up.uploads, up.post, up.body,
                              up.retry, ok)} }) :
           r \in { IF /\ Len(messages) = 1
                      /\ ~HasAssistant(messages)
                      /\ ~IsContinuation(messages, hash)
                   THEN [c |-> Reset(g.c, f, ok).c, f |-> Reset(g.c, f, ok).f, reset |-> TRUE]
                   ELSE [c |-> g.c, f |-> f, reset |-> FALSE] } })

\* chat_completions with the client g.c of get_client: the reset of a new
\* conversation, client.chat(), and the response; an exception gives 500.
ChatCompletionsChat(g, f, mode, hash, messages, stream, up, ok) ==
    Only({ Only({ [(IF e.res # "ok"
                    THEN Response(500, <<>>, <<>>, e.c, e.f, hash, g.wire \o e.wire)
                    ELSE ChatCompletionsRespond(e, mode, messages, stream, up,
                                                g.wire \o e.wire))
                   EXCEPT !.reset = r.reset] :
                  e \in {Chat(r.c, r.f, messages, FALSE, up.uploads, up.post, up.body,
                              up.retry, ok)} }) :
           r \in { IF /\ Len(messages) = 1
                      /\ ~HasAssistant(messages)
                      /\ g.c.conversation_id = NoId
                      /\ Len(g.c.messages) = 0
                      /\ ~IsContinuation(messages, hash)
                   THEN [c |-> Reset(g.c, f, ok).c, f |-> Reset(g.c, f, ok).f, reset |-> TRUE]
                   ELSE [c |-> g.c, f |-> f, reset |-> FALSE] } })

\* POST /v1/chat/completions
ChatCompletions(c, f, cfg, mode, hash, authorization, messages, stream, up, ok) ==
    IF ~VerifyApiKey(authorization) THEN Response(401, <<>>, <<>>, c, f, hash, <<>>)
    ELSE Only({ IF g.res # "ok" THEN Response(500, <<>>, <<>>, g.c, f, hash, g.wire)
                ELSE ChatCompletionsChat(g, f, mode, hash, messages, stream, up, ok) :
                g \in {GetClient(cfg, c, f)} })

\* POST /v1/chat/completions/reset
ResetContext(c, f, hash, authorization, ok) ==
    IF ~VerifyApiKey(authorization) THEN Response(401, <<>>, <<>>, c, f, hash, <<>>)
    ELSE Only({ Response(200, <<>>, <<"ok">>, r.c, r.f, hash, <<>>) :
                r \in { IF c.alive THEN Reset(c, f, ok) ELSE [c |-> c, f |-> f] } })

\* GET /v1/models and GET /v1beta/models
ListModels(c, f, hash, authorization) ==
    IF ~VerifyApiKey(authorization) THEN Response(401, <<>>, <<>>, c, f, hash, <<>>)
    ELSE Response(200, <<>>, <<"models">>, c, f, hash, <<>>)

\* generate_stream of gemini_generate_content: the initial event, the chunks of
\* _send_stream_request, the STOP event and [DONE]; an exception gives an error event.
GenerateStream(c, messages, post, body) ==
    IF messages = <<>> THEN [c |-> c, wire |-> <<>>, events |-> <<GeminiError>>]
    ELSE Only({ [c |-> st.c, wire |-> st.wire,
                 events |-> IF st.res # "ok" THEN <<GeminiInitial, GeminiError>>
                            ELSE <<GeminiInitial>>
                                 \o [k \in DOMAIN st.chunks |-> GeminiText(st.chunks[k])]
                                 \o <<GeminiStop, Done>>] :
                st \in {StreamRequest(c,
                                      IF messages[Len(messages)].content.images = 0
                                      THEN messages[Len(messages)].content.text ELSE <<>>,
                                      <<>>, post, body)} })

\* The contents of a Gemini request as chat() messages: role user, or model.
AsMessages(contents) ==
    [k \in DOMAIN contents |->
       [contents[k] EXCEPT !.role = IF @ = "user" THEN "user" ELSE "model"]]

\* gemini_generate_content with the client g.c of get_client: the stream, or
\* client.chat() and its reply; an exception of chat() gives 500.
GeminiGenerateContentChat(g, f, hash, messages, alt, up, ok) ==
    IF alt = "sse"
    THEN Only({ Response(200, st.events, <<>>, st.c, f, hash, g.wire \o st.wire) :
                st \in {GenerateStream(g.c, messages, up.post, up.body)} })
    ELSE Only({ IF e.res # "ok"
                THEN Response(500, <<>>, <<>>, e.c, e.f, hash, g.wire \o e.wire)
                ELSE Response(200, <<>>, e.reply, e.c, e.f, hash, g.wire \o e.wire) :
                e \in {Chat(g.c, f, messages, FALSE, up.uploads, up.post, up.body,
                            up.retry, ok)} })

\* POST /v1beta/models/{model}:generateContent (alt = "sse": a stream) and, with
\* alt forced to "sse", POST /v1beta/models/{model}:streamGenerateContent.
GeminiGenerateContent(c, f, cfg, hash, authorization, contents, alt, up, ok) ==
    IF ~VerifyApiKey(authorization) THEN Response(401, <<>>, <<>>, c, f, hash, <<>>)
    ELSE Only({ IF g.res # "ok" THEN Response(500, <<>>, <<>>, g.c, f, hash, g.wire)
                ELSE Only({ GeminiGenerateContentChat(g, f, hash, messages, alt, up, ok) :
                            messages \in {AsMessages(contents)} }) :
                g \in {GetClient(cfg, c, f)} })

(***************************************************************************)
(* The server as a state machine: one action per endpoint.                 *)
(***************************************************************************)
\* The Authorization headers a request may come with (<<>>: none).
Auths ==
    { <<>>,
      Bearer \o API_KEY,
      Bearer \o API_KEY \o <<"x">>,
      <<"b", "e", "a", "r", "e", "r", " ">> \o API_KEY }

Configured == [SNLM0E |-> <<"t", "1">>, SECURE_1PSID |-> <<"s">>, PUSH_ID |-> <<"p">>]

\* What load_config leaves at start: nothing, or a saved configuration.
ServerConfigs == {NoConfig, Configured}

\* The message lists of a request: none, a first message, a conversation.
ServerMessages ==
    { <<>>,
      <<Msg("user", <<"h">>, 0)>>,
      <<Msg("user", <<"h">>, 0), Msg("assistant", <<"a">>, 0), Msg("user", <<"h">>, 0)>> }

LongText == <<"a", "b", "c", "d", "e", "f", "g", "h", "i", "j", "k">>

TextLine(text) == [status |-> FALSE, conv |-> TRUE, resp |-> TRUE, cand |-> TRUE, text |-> text]

IdsLine == [status |-> FALSE, conv |-> TRUE, resp |-> TRUE, cand |-> FALSE, text |-> <<>>]

\* The bodies the upstream answers the server's requests with.
ServerBodyShapes ==
    { <<>>, <<IdsLine>>, <<TextLine(<<"a">>)>>, <<TextLine(<<"a">>), TextLine(<<"a", "b">>)>>,
      <<TextLine(LongText)>> }

ServerResponses(g) == { [k \in DOMAIN ss |-> MkLine(g, ss[k])] : ss \in ServerBodyShapes }

\* What the upstream does to the requests of a handler that gets to send them:
\* to the request of chat(), and to the request of a real stream after it.
UpstreamFor(authorization, messages, second) ==
    IF VerifyApiKey(authorization) /\ config # NoConfig /\ messages # <<>>
    THEN { [NoUpstream EXCEPT !.post = p, !.body = b, !.post2 = p2, !.body2 = b2] :
             p \in {"ok"}, b \in ServerResponses(GenOf(client.request_count)),
             p2 \in (IF second THEN PostOutcomes ELSE {"ok"}) \ {"network_error"},
             b2 \in (IF second THEN ServerResponses(GenOf(client.request_count + 1)) ELSE {<<>>}) }
         \cup { [NoUpstream EXCEPT !.post = p] : p \in PostOutcomes \ {"ok"} }
    ELSE {NoUpstream}

Http(endpoint, authorization, messages, stream, r) ==
    [endpoint |-> endpoint, authorization |-> authorization, messages |-> messages,
     stream |-> stream, status |-> r.status, events |-> r.events, reply |-> r.reply,
     reset |-> r.reset, cookie |-> NoToken, set_cookie |-> NoToken, success |-> FALSE]

InitServer ==
    /\ client = NoClient
    /\ session_file \in { f \in InitFiles : f.ok }
    /\ fs_ok = TRUE
    /\ gen = NoGen
    /\ wire = <<>>
    /\ last = Last("none", "ok", FALSE, NoIds, NoIds, FALSE)
    /\ config \in ServerConfigs
    /\ STREAMING_MODE \in {"real", "fake"}
    /\ last_user_messages_hash = <<>>
    /\ http = NoHttp
    /\ built = NoBuilt
    /\ admin_sessions = {}
    /\ tokens_issued = 0

\* What a handler leaves as it is.
handler_frame ==
    <<fs_ok, gen, last, config, STREAMING_MODE, built, admin_sessions, tokens_issued>>

Handled(endpoint, authorization, messages, stream, r) ==
    /\ client' = r.c
    /\ session_file' = r.f
    /\ last_user_messages_hash' = r.hash
    /\ wire' = r.wire
    /\ http' = Http(endpoint, authorization, messages, stream, r)
    /\ UNCHANGED handler_frame

ListModelsCall ==
    \E authorization \in Auths :
    \E r \in {ListModels(client, session_file, last_user_messages_hash, authorization)} :
      Handled("models", authorization, <<>>, FALSE, r)

ListModelsV1BetaCall ==
    \E authorization \in Auths :
    \E r \in {ListModels(client, session_file, last_user_messages_hash, authorization)} :
      Handled("models_v1beta", authorization, <<>>, FALSE, r)

ChatCompletionsCall ==
    /\ client.request_count < MaxRequests
    /\ TrailingUsers(client.messages) < MaxOrphans
    /\ \E authorization \in Auths, messages \in ServerMessages, stream \in BOOLEAN :
       \E up \in UpstreamFor(authorization, messages, stream /\ STREAMING_MODE = "real") :
       \E r \in {ChatCompletions(client, session_file, config, STREAMING_MODE,
                                 last_user_messages_hash, authorization, messages, stream,
                                 up, fs_ok)} :
         Handled("chat", authorization, messages, stream, r)

ResetContextCall ==
    \E authorization \in Auths :
    \E r \in {ResetContext(client, session_file, last_user_messages_hash, authorization, fs_ok)} :
      Handled("reset", authorization, <<>>, FALSE, r)

GenerateContentCall ==
    /\ client.request_count < MaxRequests
    /\ TrailingUsers(client.messages) < MaxOrphans
    /\ \E authorization \in Auths, contents \in ServerMessages, alt \in {"", "sse"} :
       \E up \in UpstreamFor(authorization, contents, FALSE) :
       \E r \in {GeminiGenerateContent(client, session_file, config, last_user_messages_hash,
                                       authorization, contents, alt, up, fs_ok)} :
         Handled("generateContent", authorization, contents, alt = "sse", r)

StreamGenerateContentCall ==
    /\ client.request_count < MaxRequests
    /\ TrailingUsers(client.messages) < MaxOrphans
    /\ \E authorization \in Auths, contents \in ServerMessages :
       \E up \in UpstreamFor(authorization, contents, FALSE) :
       \E r \in {GeminiGenerateContent(client, session_file, config, last_user_messages_hash,
                                       authorization, contents, "sse", up, fs_ok)} :
         Handled("streamGenerateContent", authorization, contents, TRUE, r)

NextServer ==
    \/ ListModelsCall
    \/ ListModelsV1BetaCall
    \/ ChatCompletionsCall
    \/ ResetContextCall
    \/ GenerateContentCall
    \/ StreamGenerateContentCall

SpecServer == InitServer /\ [][NextServer]_vars

(***************************************************************************)
(* Properties of the server.                                               *)
(***************************************************************************)
\* The endpoints under /v1 and /v1beta.
ApiEndpoints ==
    {"models", "models_v1beta", "chat", "reset", "generateContent", "streamGenerateContent"}

\* The last request was to an API endpoint and did not carry 'Bearer ' and the key.
Rejected(h) == h.endpoint \in ApiEndpoints /\ h.authorization # Bearer \o API_KEY

\* C6: every endpoint under /v1 and /v1beta answers 401 unless the Authorization
\* header is exactly 'Bearer ' followed by the API key, and a rejected request
\* creates no client, sends nothing upstream and leaves the conversation context,
\* the session file and _last_user_messages_hash as they were.
C6_KeyRequired ==
    /\ [](http.endpoint \in ApiEndpoints => (http.status = 401 <=> Rejected(http)))
    /\ [][Rejected(http') =>
            /\ http'.status = 401
            /\ client' = client
            /\ session_file' = session_file
            /\ last_user_messages_hash' = last_user_messages_hash
            /\ wire' = <<>>]_vars

\* A chat request whose header has one character after the key has been rejected
\* while a client holds the ids of a conversation.
C6_Witness ==
    /\ http.endpoint = "chat" /\ http.status = 401
    /\ http.authorization = Bearer \o API_KEY \o <<"x">>
    /\ client.alive /\ client.conversation_id # NoId
    /\ last_user_messages_hash # <<>>

\* The framing of an OpenAI stream: the role chunk, chunks with finish_reason
\* null, one chunk with finish_reason stop, [DONE], and nothing after it.
Framed(events) ==
    /\ Len(events) >= 3
    /\ events[1] = RoleChunk
    /\ \A k \in 2..(Len(events) - 2) :
         events[k].finish_reason = "null" /\ events[k].event = "content"
    /\ events[Len(events) - 1].finish_reason = "stop"
    /\ events[Len(events) - 1] # Done
    /\ events[Len(events)] = Done

\* C7: the events of a /v1/chat/completions stream are, in real and in fake
\* STREAMING_MODE: one role chunk, zero or more chunks with finish_reason null,
\* exactly one chunk with finish_reason stop, then [DONE] as the last event, also
\* when the upstream request of the stream fails.
C7_OpenAIStreamFraming ==
    (http.endpoint = "chat" /\ http.stream /\ http.status = 200) => Framed(http.events)

\* A real stream whose upstream request failed after the role chunk.
C7_Witness ==
    /\ STREAMING_MODE = "real" /\ http.endpoint = "chat" /\ http.stream /\ http.status = 200
    /\ http.events = <<RoleChunk, ErrorChunk, Done>>

\* C8: every response stream of streamGenerateContent, and of generateContent with
\* alt=sse, ends with the event [DONE], also when the upstream request fails.
C8_GeminiStreamEndsWithDone ==
    (/\ http.endpoint \in {"generateContent", "streamGenerateContent"}
     /\ http.stream /\ http.status = 200)
    => (http.events # <<>> /\ http.events[Len(http.events)] = Done)

\* C10: when the reset endpoint has answered ok, the chat request that comes next
\* goes upstream with empty conversation_id, response_id and choice_id.
C10_ChatAfterResetIsFresh ==
    [][(/\ http.endpoint = "reset" /\ http.status = 200
        /\ http'.endpoint = "chat" /\ Sent(wire') # <<>>)
       => ReqIds(Sent(wire')[1]) = NoIds]_vars

\* The request handled by the step is a chat request of one user message.
OneUserMessage(h) ==
    /\ h.endpoint = "chat"
    /\ Len(h.messages) = 1
    /\ h.messages[1].role = "user"

\* C11: a /v1/chat/completions request of exactly one user message and no
\* assistant message goes upstream with empty conversation_id, response_id and
\* choice_id, whatever the server handled before.
C11_OneUserMessageIsNew ==
    [][(OneUserMessage(http') /\ Sent(wire') # <<>>)
       => ReqIds(Sent(wire')[1]) = NoIds]_vars

(***************************************************************************)
(* _build_request_data on its own: clients whose ids and token hold the    *)
(* characters JSON escapes, and texts that do.                             *)
(***************************************************************************)
BuildTexts ==
    { <<>>, <<"h">>, <<"\"">>, <<"\\">>, <<"\n">>, <<"\\", "\"">>, <<"a", ",", "]">>,
      <<"[", "\"", "n", "u", "l", "l">> }

BuildClients ==
    { [NoClient EXCEPT !.alive = TRUE, !.snlm0e = t, !.bl = DefaultBl,
                       !.conversation_id = ids[1], !.response_id = ids[2], !.choice_id = ids[3]] :
        t \in {<<"t", "1">>, <<"t", "\"", "\\">>},
        ids \in {NoIds, <<<<"c", "1">>, <<"r", "1">>, <<"k", "1">>>>,
                 <<<<"\"">>, <<"\\", "n">>, <<"\n", ",">>>>,
                 <<<<"c", "\\">>, <<>>, <<"]", "\"">>>>} }

InitBuild ==
    /\ client \in BuildClients
    /\ session_file = NoFile
    /\ fs_ok = TRUE
    /\ gen = NoGen
    /\ wire = <<>>
    /\ last = Last("none", "ok", FALSE, NoIds, NoIds, FALSE)
    /\ config = NoConfig
    /\ STREAMING_MODE = "real"
    /\ last_user_messages_hash = <<>>
    /\ http = NoHttp
    /\ built = NoBuilt
    /\ admin_sessions = {}
    /\ tokens_issued = 0

\* _build_request_data(text, images, image_paths)
BuildCall ==
    /\ \E text \in BuildTexts, n \in 0..MaxImages :
       \E image_paths \in {[k \in 1..n |-> ImagePath]} :
         built' = [text |-> text, image_paths |-> image_paths,
                   f_req |-> BuildRequestData(client, text, image_paths)]
    /\ UNCHANGED <<client, session_file, fs_ok, gen, wire, last, server_vars>>

NextBuild == BuildCall

SpecBuild == InitBuild /\ [][NextBuild]_vars

\* s begins with p.
IsPrefix(p, s) == Len(p) <= Len(s) /\ SubSeq(s, 1, Len(p)) = p

\* The client get_client gives the handler of the step.
Serving == GetClient(config, client, session_file).c

\* C18: chat_completions calls client.reset() only for a request of one message,
\* without an assistant message, when the client's conversation_id is empty, its
\* history is empty and is_continuation is false; a client that holds a
\* conversation_id or a history at the start of a request holds them when
\* client.chat is called: the request goes upstream with its ids, and its history
\* is kept.
C18_ResetOnlyWhenEmpty ==
    [][http'.endpoint = "chat" =>
         /\ http'.reset =>
              /\ Len(http'.messages) = 1
              /\ ~HasAssistant(http'.messages)
              /\ Serving.conversation_id = NoId
              /\ Serving.messages = <<>>
              /\ ~IsContinuation(http'.messages, last_user_messages_hash)
         /\ (/\ Serving.conversation_id # NoId \/ Serving.messages # <<>>
             /\ Sent(wire') # <<>>)
            => /\ ReqIds(Sent(wire')[1]) = ClientIds(Serving)
               /\ IsPrefix(Serving.messages, client'.messages)]_vars

\* A request of one user message has been served by a client that held a
\* conversation, without a reset.
C18_Witness ==
    /\ OneUserMessage(http) /\ http.status = 200 /\ ~http.reset
    /\ Len(client.messages) >= 4
    /\ client.conversation_id # NoId

(***************************************************************************)
(* The client over long histories: session files that earlier runs have    *)
(* left with about max_history_messages messages, the two forms of chat(), *)
(* and reset().                                                            *)
(***************************************************************************)
\* chat(message=..., image=...) up to the point where it sends: the user message
\* goes to the history, which is not cut on this path.
ChatMessagePrologue(c, f, message, image) ==
    LET c1 == IF message # <<>>
              THEN [c EXCEPT !.messages = Append(@, Msg("user", message, 0))] ELSE c
    IN [c |-> c1, f |-> f, text |-> message,
        images |-> IF message # <<>> THEN image ELSE 0,
        res |-> IF message = <<>> THEN "ValueError" ELSE "ok"]

\* chat(message=..., image=..., stream=False)
ChatMessage(c, f, message, image, uploads, post, body, retry, ok) ==
    LET p == ChatMessagePrologue(c, f, message, image)
    IN IF p.res # "ok" THEN Effect(p.c, p.f, p.res, <<>>, <<>>)
       ELSE SendRequest(p.c, p.f, p.text, p.images, uploads, post, body, retry, ok)

\* n exchanges of an earlier run: user and assistant messages in turn.
RECURSIVE Exchanges(_)
Exchanges(n) ==
    IF n = 0 THEN <<>>
    ELSE Exchanges(n - 1) \o <<Msg("user", <<"h">>, 0), Msg("assistant", <<"a">>, 0)>>

SavedFile(messages) ==
    [exists |-> TRUE, ok |-> TRUE, conversation_id |-> ConvId("0"), response_id |-> RespId("0"),
     choice_id |-> ChoiceId("0"), messages |-> messages]

\* The session files of long conversations: a history under the limit, one at the
\* limit, and the one a chat() on a history at the limit leaves (the cut history
\* and the reply).
LongFiles ==
    { SavedFile(Exchanges((max_history_messages \div 2) - 1)),
      SavedFile(Exchanges(max_history_messages \div 2)),
      SavedFile(Tail(Exchanges((max_history_messages \div 2) + 1))) }

\* A file whose ids can be read and whose messages make the load raise.
BrokenFile == [SavedFile(Exchanges(1)) EXCEPT !.ok = FALSE]

InitHistory ==
    /\ client = NoClient
    /\ session_file \in LongFiles \cup {NoFile, BrokenFile}
    /\ fs_ok = TRUE
    /\ gen = NoGen
    /\ wire = <<>>
    /\ last = Last("none", "ok", FALSE, NoIds, NoIds, FALSE)
    /\ config = NoConfig
    /\ STREAMING_MODE = "real"
    /\ last_user_messages_hash = <<>>
    /\ http = NoHttp
    /\ built = NoBuilt
    /\ admin_sessions = {}
    /\ tokens_issued = 0

\* client.chat(message=..., image=...)
ChatMessageCall ==
    /\ client.alive
    /\ client.request_count < MaxRequests
    /\ TrailingUsers(client.messages) < MaxOrphans
    /\ gen.st \in {"none", "done"}
    /\ \E message \in UserTexts, image \in 0..MaxImages :
       \E p \in {ChatMessagePrologue(client, session_file, message, image)} :
       \E uploads \in UploadsFor(client, p.res = "ok", p.images) :
       \E post \in PostsFor(client, p.res = "ok", p.images, uploads) :
       \E body \in BodiesFor(client, p.res = "ok", p.images, uploads, post) :
       \E retry \in RetriesFor(client, p.res = "ok", p.images, uploads, post, body) :
       \E e \in {ChatMessage(client, session_file, message, image, uploads, post, body,
                             retry, fs_ok)} :
         /\ client' = e.c
         /\ session_file' = e.f
         /\ wire' = e.wire
         /\ last' = Last("chat_message", e.res, FALSE, Got(e.res, body), NoIds, FALSE)
    /\ UNCHANGED <<fs_ok, gen, server_vars, built>>

NextHistory ==
    \/ Construct
    \/ ChatCall
    \/ ChatMessageCall
    \/ ResetCall

SpecHistory == InitHistory /\ [][NextHistory]_vars

(***************************************************************************)
(* The admin pages of the server: login, logout, and the configuration.    *)
(***************************************************************************)
ADMIN_USERNAME == "admin"

ADMIN_PASSWORD == "admin123"

\* Successful logins of a run.
MaxLogins == 2

\* A verify_admin_session that takes any cookie there is.
VerifyAdminSessionAnyToken(sessions, token) == token # NoToken

\* verify_admin_session: the admin_session cookie is one of _admin_sessions.
VerifyAdminSession(sessions, token) == ~(token = NoToken \/ token \notin sessions)

\* A cookie text: a prefix some users paste with it, and its items (key=value).
CookieText(prefix, items) == [prefix |-> prefix, items |-> items]

CookieItem(key, value) == [key |-> key, value |-> value]

\* The keys of COOKIE_FIELD_MAP that lead to the fields of the configuration kept here.
COOKIE_FIELD_MAP == [k \in {"__Secure-1PSID"} |-> "SECURE_1PSID"]

\* clean_cookie_string: the text without its prefix.
CleanCookieString(cookie_str) == [cookie_str EXCEPT !.prefix = ""]

IsEmptyText(cookie_str) == cookie_str.prefix = "" /\ cookie_str.items = <<>>

\* parse_cookie_string: the value of the last item of each mapped key.
RECURSIVE ParseItems(_, _)
ParseItems(items, result) ==
    IF items = <<>> THEN result
    ELSE ParseItems(Tail(items),
                    IF Head(items).key \in DOMAIN COOKIE_FIELD_MAP
                    THEN [result EXCEPT ![COOKIE_FIELD_MAP[Head(items).key]] = Head(items).value]
                    ELSE result)

ParseCookieString(cookie_str) ==
    ParseItems(CleanCookieString(cookie_str).items, [SECURE_1PSID |-> <<>>])

\* The request of fetch_tokens_from_page.
TokenFetch == [url |-> "gemini.google.com", cmd |-> "GET", at |-> <<>>, inner |-> NoPayload]

\* What a handler of the admin pages gives back: the response and the state after.
AdminResponse(status, success, set_cookie, c, cfg, sessions, issued, w) ==
    [status |-> status, success |-> success, set_cookie |-> set_cookie, c |-> c, cfg |-> cfg,
     sessions |-> sessions, issued |-> issued, wire |-> w]

\* POST /admin/login
AdminLogin(c, cfg, sessions, issued, username, password) ==
    IF username = ADMIN_USERNAME /\ password = ADMIN_PASSWORD
    THEN AdminResponse(200, TRUE, issued + 1, c, cfg, sessions \cup {issued + 1}, issued + 1, <<>>)
    ELSE AdminResponse(200, FALSE, NoToken, c, cfg, sessions, issued, <<>>)

\* GET /admin/logout
AdminLogout(c, cfg, sessions, issued, token) ==
    AdminResponse(302, FALSE, NoToken, c, cfg,
                  IF token # NoToken /\ token \in sessions THEN sessions \ {token} ELSE sessions,
                  issued, <<>>)

\* GET /admin
AdminPage(c, cfg, sessions, issued, token) ==
    IF ~VerifyAdminSession(sessions, token)
    THEN AdminResponse(302, FALSE, NoToken, c, cfg, sessions, issued, <<>>)
    ELSE AdminResponse(200, FALSE, NoToken, c, cfg, sessions, issued, <<>>)

\* GET /admin/config and GET /admin/server-info
AdminRead(c, cfg, sessions, issued, token) ==
    IF ~VerifyAdminSession(sessions, token)
    THEN AdminResponse(401, FALSE, NoToken, c, cfg, sessions, issued, <<>>)
    ELSE AdminResponse(200, FALSE, NoToken, c, cfg, sessions, issued, <<>>)

\* An admin_save that leaves the client there is in place.
AdminSaveKeepsClient(c, f, cfg, sessions, issued, token, full_cookie, tokens, ok) ==
    IF ~VerifyAdminSession(sessions, token)
    THEN AdminResponse(401, FALSE, NoToken, c, cfg, sessions, issued, <<>>)
    ELSE IF IsEmptyText(full_cookie) \/ IsEmptyText(CleanCookieString(full_cookie))
    THEN AdminResponse(200, FALSE, NoToken, c, cfg, sessions, issued, <<>>)
    ELSE IF ParseCookieString(CleanCookieString(full_cookie)).SECURE_1PSID = <<>>
    THEN AdminResponse(200, FALSE, NoToken, c, cfg, sessions, issued, <<>>)
    ELSE IF tokens.snlm0e = <<>>
    THEN AdminResponse(200, FALSE, NoToken, c, cfg, sessions, issued, <<TokenFetch>>)
    ELSE Only({ IF ~ok THEN AdminResponse(500, FALSE, NoToken, c, cfg1, sessions, issued, <<TokenFetch>>)
                ELSE Only({ AdminResponse(200, TRUE, NoToken, g.c, cfg1, sessions, issued,
                                          <<TokenFetch>> \o g.wire) :
                            g \in {GetClient(cfg1, c, f)} }) :
                cfg1 \in {[SNLM0E |-> tokens.snlm0e,
                           SECURE_1PSID |-> ParseCookieString(CleanCookieString(full_cookie)).SECURE_1PSID,
                           PUSH_ID |-> tokens.push_id]} })

\* POST /admin/save: 401 without a session; success false for a cookie text that is
\* empty or has no __Secure-1PSID, or when the page gives no SNlM0e; otherwise the
\* configuration is replaced and written (a failing write ends the request with 500),
\* _client is set to None and get_client is tried.
AdminSave(c, f, cfg, sessions, issued, token, full_cookie, tokens, ok) ==
    IF ~VerifyAdminSession(sessions, token)
    THEN AdminResponse(401, FALSE, NoToken, c, cfg, sessions, issued, <<>>)
    ELSE IF IsEmptyText(full_cookie) \/ IsEmptyText(CleanCookieString(full_cookie))
    THEN AdminResponse(200, FALSE, NoToken, c, cfg, sessions, issued, <<>>)
    ELSE IF ParseCookieString(CleanCookieString(full_cookie)).SECURE_1PSID = <<>>
    THEN AdminResponse(200, FALSE, NoToken, c, cfg, sessions, issued, <<>>)
    ELSE IF tokens.snlm0e = <<>>
    THEN AdminResponse(200, FALSE, NoToken, c, cfg, sessions, issued, <<TokenFetch>>)
    ELSE Only({ IF ~ok THEN AdminResponse(500, FALSE, NoToken, c, cfg1, sessions, issued, <<TokenFetch>>)
                ELSE Only({ AdminResponse(200, TRUE, NoToken, g.c, cfg1, sessions, issued,
                                          <<TokenFetch>> \o g.wire) :
                            g \in {GetClient(cfg1, NoClient, f)} }) :
                cfg1 \in {[SNLM0E |-> tokens.snlm0e,
                           SECURE_1PSID |-> ParseCookieString(CleanCookieString(full_cookie)).SECURE_1PSID,
                           PUSH_ID |-> tokens.push_id]} })

\* The admin_session cookies a request may come with.
AdminCookies == {NoToken} \cup (1..MaxLogins)

Usernames == {ADMIN_USERNAME, "root"}

Passwords == {ADMIN_PASSWORD, "admin"}

\* The cookie texts posted to /admin/save.
FullCookies ==
    { CookieText("", <<>>),
      CookieText("Cookie:", <<>>),
      CookieText("", <<CookieItem("SID", <<"x">>)>>),
      CookieText("cookie:", <<CookieItem("__Secure-1PSID", <<"s">>)>>),
      CookieText("", <<CookieItem("__Secure-1PSID", <<"x">>), CookieItem("SID", <<"x">>),
                       CookieItem("__Secure-1PSID", <<"s">>)>>) }

\* What the page gives fetch_tokens_from_page.
PageTokens ==
    { [snlm0e |-> t, push_id |-> q] : t \in {<<>>, <<"t", "1">>, <<"t", "2">>}, q \in PushIds }

InitAdmin ==
    /\ client = NoClient
    /\ session_file = NoFile
    /\ fs_ok \in BOOLEAN
    /\ gen = NoGen
    /\ wire = <<>>
    /\ last = Last("none", "ok", FALSE, NoIds, NoIds, FALSE)
    /\ config \in ServerConfigs
    /\ STREAMING_MODE = "real"
    /\ last_user_messages_hash = <<>>
    /\ http = NoHttp
    /\ built = NoBuilt
    /\ admin_sessions = {}
    /\ tokens_issued = 0

\* The state and the exchange after a request to an admin page.
AdminHandled(endpoint, token, r) ==
    /\ client' = r.c
    /\ config' = r.cfg
    /\ admin_sessions' = r.sessions
    /\ tokens_issued' = r.issued
    /\ wire' = r.wire
    /\ http' = [NoHttp EXCEPT !.endpoint = endpoint, !.status = r.status, !.cookie = token,
                              !.set_cookie = r.set_cookie, !.success = r.success]
    /\ UNCHANGED <<session_file, fs_ok, gen, last, STREAMING_MODE, last_user_messages_hash, built>>

AdminLoginCall ==
    /\ tokens_issued < MaxLogins
    /\ \E username \in Usernames, password \in Passwords :
       \E r \in {AdminLogin(client, config, admin_sessions, tokens_issued, username, password)} :
         AdminHandled("admin_login", NoToken, r)

AdminLogoutCall ==
    \E token \in AdminCookies :
    \E r \in {AdminLogout(client, config, admin_sessions, tokens_issued, token)} :
      AdminHandled("admin_logout", token, r)

AdminPageCall ==
    \E token \in AdminCookies :
    \E r \in {AdminPage(client, config, admin_sessions, tokens_issued, token)} :
      AdminHandled("admin", token, r)

\* The inputs of an admin_save that gets to read the cookie text / to fetch the page.
FullCookiesFor(token) ==
    IF VerifyAdminSession(admin_sessions, token) THEN FullCookies ELSE {CookieText("", <<>>)}

PageTokensFor(token, full_cookie) ==
    IF VerifyAdminSession(admin_sessions, token)
       /\ ParseCookieString(full_cookie).SECURE_1PSID # <<>>
    THEN PageTokens ELSE {[snlm0e |-> <<>>, push_id |-> <<>>]}

AdminSaveCall ==
    \E token \in AdminCookies :
    \E full_cookie \in FullCookiesFor(token) :
    \E tokens \in PageTokensFor(token, full_cookie) :
    \E r \in {AdminSave(client, session_file, config, admin_sessions, tokens_issued, token,
                        full_cookie, tokens, fs_ok)} :
      AdminHandled("admin_save", token, r)

AdminGetConfigCall ==
    \E token \in AdminCookies :
    \E r \in {AdminRead(client, config, admin_sessions, tokens_issued, token)} :
      AdminHandled("admin_config", token, r)

GetServerInfoCall ==
    \E token \in AdminCookies :
    \E r \in {AdminRead(client, config, admin_sessions, tokens_issued, token)} :
      AdminHandled("admin_server_info", token, r)

\* The upstream of the requests made while the admin pages are in use: a refusal,
\* or one line with a text.
AdminUpstreamFor(authorization, messages) ==
    { up \in UpstreamFor(authorization, messages, FALSE) :
        up.post = "http_error" \/ (Len(up.body) = 1 /\ up.body[1].text = <<"a">>) }

\* POST /v1/chat/completions with the key, one user message, no stream.
ApiChatCall ==
    /\ client.request_count < MaxRequests
    /\ Len(session_file.messages) < 2 * MaxRequests
    /\ TrailingUsers(client.messages) < MaxOrphans
    /\ \E authorization \in {Bearer \o API_KEY}, messages \in {<<Msg("user", <<"h">>, 0)>>} :
       \E up \in AdminUpstreamFor(authorization, messages) :
       \E r \in {ChatCompletions(client, session_file, config, STREAMING_MODE,
                                 last_user_messages_hash, authorization, messages, FALSE,
                                 up, fs_ok)} :
         Handled("chat", authorization, messages, FALSE, r)

NextAdmin ==
    \/ AdminLoginCall
    \/ AdminLogoutCall
    \/ AdminPageCall
    \/ AdminSaveCall
    \/ AdminGetConfigCall
    \/ GetServerInfoCall
    \/ ApiChatCall
    \/ ListModelsCall

SpecAdmin == InitAdmin /\ [][NextAdmin]_vars

(***************************************************************************)
(* Properties of the admin pages.                                          *)
(***************************************************************************)
CredentialsOf(c) == <<c.snlm0e, c.cookies, c.push_id>>

CredentialsIn(cfg) == <<cfg.SNLM0E, cfg.SECURE_1PSID, cfg.PUSH_ID>>

\* The client the server holds, if it holds one, was built from cfg.
BuiltFrom(c, cfg) == c.alive => CredentialsOf(c) = CredentialsIn(cfg)

SaveSucceeded(h) == h.endpoint = "admin_save" /\ h.status = 200 /\ h.success

\* C14: a successful /admin/save leaves no client but one newly built from the
\* configuration it saved; and from then on, request after request to the API,
\* the configuration stays, the client that serves is one built from it, and the
\* requests sent upstream carry its SNLM0E.
C14_SavedConfigTakesEffect ==
    [][/\ SaveSucceeded(http') =>
            /\ BuiltFrom(client', config')
            /\ client'.alive => client'.request_count = 0
       /\ (http'.endpoint \in ApiEndpoints /\ BuiltFrom(client, config)) =>
            /\ config' = config
            /\ BuiltFrom(client', config')
            /\ \A k \in DOMAIN wire' :
                 IsStreamGenerate(wire'[k]) => wire'[k].at = config.SNLM0E]_vars

\* A chat served with the second token, which only a save can have brought.
C14_Witness ==
    /\ http.endpoint = "chat"
    /\ http.status = 200
    /\ config.SNLM0E = <<"t", "2">>
    /\ Sent(wire) # <<>>
    /\ Sent(wire)[1].at = <<"t", "2">>
    /\ Len(client.messages) > 2

ProtectedEndpoints == {"admin_save", "admin_config", "admin_server_info"}

\* C15: /admin/save, /admin/config and /admin/server-info answer 401, and /admin
\* redirects, exactly when the admin_session cookie is not a token that a login
\* with the right username and password gave out and that no logout has taken
\* back: only such a login adds a token, a new one, to the valid ones (a failed
\* login sets no cookie and leaves them as they are), a logout removes the token
\* it comes with, no other request changes them, and a token once given out and
\* no longer valid never becomes valid again.
C15_AdminSessionValidity ==
    [][/\ http'.endpoint \in ProtectedEndpoints =>
            (http'.status = 401 <=> http'.cookie \notin admin_sessions)
       /\ http'.endpoint = "admin" =>
            (http'.status = 302 <=> http'.cookie \notin admin_sessions)
       /\ http'.endpoint = "admin_login" =>
            IF http'.success
            THEN /\ http'.set_cookie \notin 0..tokens_issued
                 /\ admin_sessions' = admin_sessions \cup {http'.set_cookie}
            ELSE /\ http'.set_cookie = NoToken
                 /\ admin_sessions' = admin_sessions
       /\ http'.endpoint = "admin_logout" =>
            admin_sessions' = admin_sessions \ {http'.cookie}
       /\ http'.endpoint \notin {"admin_login", "admin_logout"} =>
            admin_sessions' = admin_sessions
       /\ NoToken \notin admin_sessions'
       /\ \A t \in 1..tokens_issued : t \notin admin_sessions => t \notin admin_sessions']_vars

\* With one token logged out and another valid, a request that comes with the
\* first is turned away.
C15_Witness ==
    /\ tokens_issued = 2
    /\ admin_sessions = {2}
    /\ http.endpoint = "admin_save"
    /\ http.cookie = 1
    /\ http.status = 401

(***************************************************************************)
(* The client over requests with several images: what the upload endpoint  *)
(* does to each image is kept with the call.                               *)
(***************************************************************************)
\* Images of one request.
MaxUploadImages == 2

InitUpload ==
    /\ client = NoClient
    /\ session_file = NoFile
    /\ fs_ok = TRUE
    /\ gen = NoGen
    /\ wire = <<>>
    /\ last = Last("none", "ok", FALSE, NoIds, NoIds, FALSE)
    /\ config = NoConfig
    /\ STREAMING_MODE = "real"
    /\ last_user_messages_hash = <<>>
    /\ http = NoHttp
    /\ built = NoBuilt
    /\ admin_sessions = {}
    /\ tokens_issued = 0

\* client.chat(messages=[a user message with a text and n images])
ChatImagesCall ==
    /\ client.alive
    /\ client.request_count < MaxRequests
    /\ TrailingUsers(client.messages) < MaxOrphans
    /\ gen.st \in {"none", "done"}
    /\ \E n \in 0..MaxUploadImages :
       \E messages \in {<<Msg("user", <<"h">>, n)>>} :
       \E uploads \in UploadsFor(client, TRUE, n) :
       \E post \in PostsFor(client, TRUE, n, uploads) :
       \E body \in BodiesFor(client, TRUE, n, uploads, post) :
       \E retry \in RetriesFor(client, TRUE, n, uploads, post, body) :
       \E e \in {Chat(client, session_file, messages, FALSE, uploads, post, body, retry, fs_ok)} :
         /\ client' = e.c
         /\ session_file' = e.f
         /\ wire' = e.wire
         /\ last' = [Last("chat_images", e.res, FALSE, Got(e.res, body), NoIds, FALSE)
                     EXCEPT !.uploads = uploads]
    /\ UNCHANGED <<fs_ok, gen, server_vars, built>>

NextUpload ==
    \/ Construct
    \/ ChatImagesCall

SpecUpload == InitUpload /\ [][NextUpload]_vars

(***************************************************************************)
(* Properties of the upload handshake.                                     *)
(***************************************************************************)
\* The answers to the first step after which _upload_image has no upload id.
StartFailures == {"start_401", "no_upload_id", "start_error"}

\* The images _upload_image was called for: up to the first that failed.
Attempted(uploads) ==
    { i \in DOMAIN uploads : \A j \in 1..(i - 1) : uploads[j] = "ok" }

AllUploaded(uploads) == \A i \in DOMAIN uploads : uploads[i] = "ok"

Positions(w, r) == { k \in DOMAIN w : w[k] = r }

\* C19: in a chat() with images, each image's "start" request comes right before
\* its "upload, finalize" request; a finalize request is sent only for a start
\* that was answered with an upload id (not 401/403); a StreamGenerate request
\* comes only after the two requests of every image, each image having given a
\* path; when an upload step fails no StreamGenerate request is sent and
\* request_count stays as it was.
C19_UploadHandshake ==
    [][last'.op = "chat_images" =>
         /\ \A k \in Positions(wire', UploadFinalize) : k > 1 /\ wire'[k - 1] = UploadStart
         /\ Cardinality(Positions(wire', UploadStart)) = Cardinality(Attempted(last'.uploads))
         /\ Cardinality(Positions(wire', UploadFinalize))
              = Cardinality({ i \in Attempted(last'.uploads) : last'.uploads[i] \notin StartFailures })
         /\ \A k \in DOMAIN wire' :
              IsStreamGenerate(wire'[k]) =>
                /\ AllUploaded(last'.uploads)
                /\ k > 2 * Len(last'.uploads)
                /\ \A i \in DOMAIN last'.uploads :
                     wire'[2 * i - 1] = UploadStart /\ wire'[2 * i] = UploadFinalize
         /\ ~AllUploaded(last'.uploads) =>
              Sent(wire') = <<>> /\ client'.request_count = client.request_count]_vars

\* A request with MaxUploadImages images went through: all uploaded, then sent.
C19_Witness ==
    /\ last.op = "chat_images"
    /\ last.res = "ok"
    /\ Len(last.uploads) = MaxUploadImages
    /\ AllUploaded(last.uploads)
    /\ Sent(wire) # <<>>
    /\ Len(wire) > 2 * MaxUploadImages

(***************************************************************************)
(* Properties of the history and of the session file.                      *)
(***************************************************************************)
\* C12: after any sequence of constructions, chat(messages=...), chat(message=...)
\* and reset() the history holds at most max_history_messages messages.
C12_HistoryBounded ==
    client.alive => Len(client.messages) <= max_history_messages

\* The last n elements of a sequence, or all of it.
LastN(s, n) == IF Len(s) <= n THEN s ELSE SubSeq(s, Len(s) - n + 1, Len(s))

\* The step constructs a client.
Constructed == last'.op = "__init__" /\ client'.alive

\* C13: a client constructed over a session file starts with the ids saved in it
\* and the last max_history_messages messages of the saved history, in order;
\* without a file, and over a file that cannot be loaded, it starts with empty
\* ids and an empty history.
C13_SessionRoundTrip ==
    [][Constructed =>
         IF session_file.exists /\ session_file.ok
         THEN /\ ClientIds(client') = <<session_file.conversation_id,
                                        session_file.response_id, session_file.choice_id>>
              /\ client'.messages = LastN(session_file.messages, max_history_messages)
         ELSE ClientIds(client') = NoIds /\ client'.messages = <<>>]_vars

\* A client has been constructed over a file with more than max_history_messages
\* messages and holds the last max_history_messages of them.
C13_Witness ==
    /\ last.op = "__init__" /\ client.alive
    /\ Len(session_file.messages) > max_history_messages
    /\ Len(client.messages) = max_history_messages
    /\ client.conversation_id = ConvId("0")

\* User and assistant messages in turn, a user message first.
PairsOnly(h) ==
    /\ Len(h) % 2 = 0
    /\ \A i \in DOMAIN h : h[i].role = IF i % 2 = 1 THEN "user" ELSE "assistant"

\* The step is a chat(messages=...) that cuts the history: it adds a user message
\* to a history of max_history_messages messages.
ChatCut ==
    /\ last'.op = "chat"
    /\ Len(client.messages) = max_history_messages
    /\ client'.messages # client.messages

\* What the cut of the step retained: the history after the step, less the reply.
Retained ==
    IF last'.res = "ok"
    THEN SubSeq(client'.messages, 1, Len(client'.messages) - 1)
    ELSE client'.messages

\* C16: when the history is cut, in chat() or when the session file is loaded,
\* what is retained is complete pairs: an even count, a user message first, each
\* user message followed by its assistant reply.
C16_CutKeepsPairs ==
    [][/\ (Constructed /\ session_file.ok
           /\ Len(session_file.messages) > max_history_messages)
          => PairsOnly(client'.messages)
       /\ ChatCut => PairsOnly(Retained)]_vars

\* The session file holds the client's ids and history.
FileHolds(c, f) ==
    /\ f.exists /\ f.ok
    /\ <<f.conversation_id, f.response_id, f.choice_id>> = ClientIds(c)
    /\ f.messages = c.messages

\* C17: after every completed exchange, non-streaming or a stream read to its
\* end, the session file holds the client's current ids and history (the working
\* directory being writable).
C17_SessionSaved ==
    (/\ fs_ok
     /\ \/ last.op = "chat" /\ last.res = "ok"
        \/ last.op = "next" /\ last.res = "stop")
    => FileHolds(client, session_file)

(***************************************************************************)
(* Properties of _build_request_data.                                      *)
(***************************************************************************)
IsArr(v, n) == v.t = "arr" /\ Len(v.a) >= n

\* C5: the f.req value decodes to the array [null, S], S a string, and S decodes
\* to an array with the text at [0][0], the client's conversation_id, response_id
\* and choice_id at [2][0..2] and the SNlM0e token at [3].
C5_FReqRoundTrip ==
    built.f_req # <<>> =>
      LET outer == JsonLoads(built.f_req)
      IN /\ outer.ok
         /\ IsArr(outer.v, 2) /\ Len(outer.v.a) = 2
         /\ outer.v.a[1] = JNull
         /\ outer.v.a[2].t = "str"
         /\ LET inner == JsonLoads(outer.v.a[2].s)
            IN /\ inner.ok
               /\ IsArr(inner.v, 4)
               /\ IsArr(inner.v.a[1], 1)
               /\ inner.v.a[1].a[1] = JStr(built.text)
               /\ IsArr(inner.v.a[3], 3)
               /\ SubSeq(inner.v.a[3].a, 1, 3)
                    = <<JStr(client.conversation_id), JStr(client.response_id),
                        JStr(client.choice_id)>>
               /\ inner.v.a[4] = JStr(client.snlm0e)

\* A payload has been built from a text, ids and a token that hold quotes and
\* backslashes.
C5_Witness ==
    /\ built.f_req # <<>>
    /\ built.text = <<"\\", "\"">>
    /\ client.conversation_id = <<"\"">>
    /\ client.snlm0e = <<"t", "\"", "\\">>

====
